---------------------------- MODULE Spec2Model ----------------------------
(***************************************************************************)
(* A model of the rendering-and-interaction engine shared by the dicharts  *)
(* widgets: the squarified treemap layout (Heatmap.ts), the theme resolver *)
(* (isLightBg / hexLuminance / parseLuminance, copied in every widget),    *)
(* the option merge of the widgets, and the hit-testing layer (bar chart   *)
(* and heatmap rectangles, donut sectors, radar vertices).                 *)
(*                                                                         *)
(* JavaScript numbers are modelled as exact rationals extended with the    *)
(* IEEE values +Infinity, -Infinity and NaN: <<n, d>> with d > 0 is n/d in *)
(* lowest terms, <<1, 0>> is +Infinity, <<-1, 0>> is -Infinity and         *)
(* <<0, 0>> is NaN.  Rounding error and the sign of zero are not modelled. *)
(***************************************************************************)
EXTENDS Integers, Sequences, FiniteSets, TLC

VARIABLES
    \* ---- treemap layout (Heatmap.ts: layoutTreemap) ----
    items,      \* the HeatmapItem list handed to layoutTreemap: records [id, weight]
    region,     \* the region handed to layoutTreemap: [x, y, w, h] (integers)
    gap,        \* the gap handed to layoutTreemap (integer)
    rects,      \* the LayoutRect list it returned
    tmPc,       \* "input" before the call, "done" after it
    \* ---- theme resolver (isLightBg, one copy per widget file) ----
    bg,         \* the background string handed to isLightBg
    chain,      \* computed backgroundColor of el, el.parentElement, ... up to
                \* the root; <<>> when no el is handed over
    node,       \* the loop variable of the walk: an index of chain, or
                \* Len(chain) + 1 for null
    light,      \* what isLightBg returned: "light" for true, "dark" for
                \* false, "none" until it returns
    thPc,       \* "call", "walk" (inside the while loop), "done"
    \* ---- widget options (create / setOptions of every widget) ----
    widget,     \* which widget was created: "heatmap", "bar", "radar",
                \* "donut", "area", "gauge" or "depth"
    container,  \* computed backgroundColor of the container element and its
                \* ancestors
    opts,       \* the resolved options of the widget, by option name
    supplied,   \* history: for every option the value the caller handed over
                \* last (at create or in a setOptions), undefined if never
    bgChanged,  \* history: the last call was a setOptions whose partial
                \* changed background
    \* ---- rect hit-testing (bar chart hover/click, heatmap click) ----
    htWidget,   \* "bar" or "heatmap"
    hits,       \* the record list the handlers scan: hits of the bar chart,
                \* rects of the heatmap; records [x, y, w, h] in canvas pixels
    pointer,    \* [mx, my]: the pointer in canvas pixels
    hoveredHitIdx,  \* bar chart: index of the hovered record, -1 for none
    clicked,    \* history: index of the record the last click handed to
                \* onClick, -1 when it made no call
    htEvent,    \* history: the last event handled: "none", "move", "leave",
                \* "click"
    \* ---- sector hit-testing (donut chart, Sparkline.ts) ----
    data,       \* the slice values of the donut, in data order
    ring,       \* cached geometry [innerR, outerR] and the dpr of the canvas
    sliceAngles,    \* cached per draw: [start, end] of every slice, in degrees
    dnPointer,  \* the pointer relative to the centre of the ring, as hitTest
                \* reads it: [dist, angle], angle = atan2(dy, dx) in degrees
    hoveredIdx, \* index of the hovered slice, -1 for none
    dnClicked,  \* history: index handed to onClick by the last click, -1
                \* when it made no call
    dnEvent,    \* history: the last event handled
    \* ---- proximity hit-testing (radar chart) ----
    axes,       \* the axes: records [hasMax, max]
    series,     \* the series: for each the values by axis index
    geom,       \* cached geometry [cx, cy, radius] and the dpr of the canvas
    rdPointer,  \* [mx, my]: the pointer in canvas pixels
    hoveredSeriesIdx,
    hoveredAxisIdx,
    rdClicked,  \* history: [si, ai] handed to onClick by the last click,
                \* [-1, -1] when it made no call
    rdEvent,    \* history: the last event handled
    \* ---- axis-index hit-testing (area chart) ----
    areaN,      \* the number of x labels of the resolved data
    areaCanvas, \* [width, dpr, showYAxis, interactive]: canvas.width, the
                \* device pixel ratio and the two options the handlers read
    areaMx,     \* the pointer x of the last event, in CSS pixels from the
                \* left edge of the canvas
    areaHoveredIdx, \* hoveredIdx of the area chart
    areaClicked,    \* history: index handed to onClick by the last click, -1
                \* when it made no call
    areaEvent,  \* history: the last event handled
    \* ---- the donut chart's data sets and what its callbacks receive ----
    ddData,     \* data: a sequence of slices [label, value]
    ddStacked,  \* stackedData: a sequence of rings, each a sequence of slices
    ddSliceAngles,  \* sliceAngles, as the last draw left it
    ddRing,     \* [innerR, outerR, dpr] as the last draw left it
    ddHoveredIdx,   \* hoveredIdx
    ddCall,     \* history: the last callback invocation [fn, idx, item]; item
                \* is <<slice>>, or <<>> for null and undefined
    ddPointer,  \* the pointer of the last mouse event
    ddEvent,    \* history: the last operation
    \* ---- per-item animation progress (bar, donut and radar charts) ----
    pgWidget,   \* "bar", "donut" or "radar"
    pgAnim,     \* anim, the resolved animation configuration
    pgN,        \* the number of items of the run
    pgIdx,      \* the item index of the last evaluation
    pgElapsed,  \* the elapsed time of the last evaluation
    pgProgress, \* what the progress function returned
    pgEvent,    \* history: "none" or "progress"
    \* ---- the animation scheduler of one widget instance ----
    sched       \* a record: widget (the kind of chart), animation (the
                \* animation option), n (data.length), stackedN (slices of
                \* the outer ring of stackedData, 0 when there is none), now
                \* (performance.now()), animStartTime, animating, animFrame
                \* (animId in the area and depth charts), requests (the
                \* frame requests outstanding in the browser), nextId and
                \* run (counters), lastDraw (the progress of every item in
                \* the last draw), disposed, and history of the last step:
                \* event, frameRun, completed, elapsed, cancelled
    ,
    \* ---- one record for each of the remaining components ----
    depthChart, \* the depth chart's animation loop and its options
    easingCase, \* one evaluation of a widget's easing resolution
    listeners,  \* the listeners on a widget's canvas and the events delivered
    shorthand,  \* one classification of a hex background
    needle      \* the gauge's value and the needle run

tmVars == <<items, region, gap, rects, tmPc>>

thVars == <<bg, chain, node, light, thPc>>

opVars == <<widget, container, opts, supplied, bgChanged>>

htVars == <<htWidget, hits, pointer, hoveredHitIdx, clicked, htEvent>>

dnVars ==
    <<data, ring, sliceAngles, dnPointer, hoveredIdx, dnClicked, dnEvent>>

rdVars ==
    <<axes, series, geom, rdPointer, hoveredSeriesIdx, hoveredAxisIdx,
      rdClicked, rdEvent>>

arVars ==
    <<areaN, areaCanvas, areaMx, areaHoveredIdx, areaClicked, areaEvent>>

\* The components that follow the radar chart.
ddVars ==
    <<ddData, ddStacked, ddSliceAngles, ddRing, ddHoveredIdx, ddCall,
      ddPointer, ddEvent>>

pgVars == <<pgWidget, pgAnim, pgN, pgIdx, pgElapsed, pgProgress, pgEvent>>

scVars == <<sched>>

lateVars == <<depthChart, easingCase, listeners, shorthand, needle>>

restVars == <<arVars, ddVars, pgVars, scVars, lateVars>>

vars == <<tmVars, thVars, opVars, htVars, dnVars, rdVars, restVars>>

\* What an action of one component leaves alone.
otherThanTreemap == <<thVars, opVars, htVars, dnVars, rdVars, restVars>>

otherThanTheme == <<tmVars, opVars, htVars, dnVars, rdVars, restVars>>

otherThanOptions == <<tmVars, thVars, htVars, dnVars, rdVars, restVars>>

otherThanRectHit == <<tmVars, thVars, opVars, dnVars, rdVars, restVars>>

otherThanDonut == <<tmVars, thVars, opVars, htVars, rdVars, restVars>>

otherThanRadar == <<tmVars, thVars, opVars, htVars, dnVars, restVars>>

otherThanAreaHit ==
    <<tmVars, thVars, opVars, htVars, dnVars, rdVars, ddVars, pgVars, scVars,
      lateVars>>

otherThanDonutData ==
    <<tmVars, thVars, opVars, htVars, dnVars, rdVars, arVars, pgVars, scVars,
      lateVars>>

otherThanProgress ==
    <<tmVars, thVars, opVars, htVars, dnVars, rdVars, arVars, ddVars, scVars,
      lateVars>>

earlierVars ==
    <<tmVars, thVars, opVars, htVars, dnVars, rdVars, arVars, ddVars, pgVars,
      scVars>>

otherThanDepth == <<earlierVars, easingCase, listeners, shorthand, needle>>

otherThanEasing == <<earlierVars, depthChart, listeners, shorthand, needle>>

otherThanListeners == <<earlierVars, depthChart, easingCase, shorthand, needle>>

otherThanShorthand == <<earlierVars, depthChart, easingCase, listeners, needle>>

otherThanNeedle == <<earlierVars, depthChart, easingCase, listeners, shorthand>>

otherThanScheduler ==
    <<tmVars, thVars, opVars, htVars, dnVars, rdVars, arVars, ddVars, pgVars,
      lateVars>>

-----------------------------------------------------------------------------
(* Bounds of the model.                                                    *)

MaxItems == 3
MaxWeight == 3
MaxSide == 3
MaxGap == 1
MaxDepth == 2
MaxHits == 2
MaxSlices == 3
MaxValue == 2
MaxSeries == 2
MaxPoints == 3
MaxBars == 3
MaxElapsed == 8
MaxTime == 5
MaxFrames == 4
RunHorizon == 8

-----------------------------------------------------------------------------
(* Each component has a specification of its own; there the variables of   *)
(* the other components rest at these values.                              *)

TreemapIdle ==
    /\ items = <<>>
    /\ region = [x |-> 0, y |-> 0, w |-> 0, h |-> 0]
    /\ gap = 0
    /\ rects = <<>>
    /\ tmPc = "idle"

ThemeIdle ==
    /\ bg = [kind |-> "none"]
    /\ chain = <<>>
    /\ node = 0
    /\ light = "none"
    /\ thPc = "idle"

OptionsIdle ==
    /\ widget = "none"
    /\ container = <<>>
    /\ opts = <<>>
    /\ supplied = <<>>
    /\ bgChanged = FALSE

RectHitIdle ==
    /\ htWidget = "none"
    /\ hits = <<>>
    /\ pointer = [mx |-> 0, my |-> 0]
    /\ hoveredHitIdx = -1
    /\ clicked = -1
    /\ htEvent = "idle"

DonutIdle ==
    /\ data = <<>>
    /\ ring = [innerR |-> 0, outerR |-> 0, dpr |-> 1]
    /\ sliceAngles = <<>>
    /\ dnPointer = [dist |-> 0, angle |-> 0]
    /\ hoveredIdx = -1
    /\ dnClicked = -1
    /\ dnEvent = "idle"

RadarIdle ==
    /\ axes = <<>>
    /\ series = <<>>
    /\ geom = [cx |-> 0, cy |-> 0, radius |-> 0, dpr |-> 1]
    /\ rdPointer = [mx |-> 0, my |-> 0]
    /\ hoveredSeriesIdx = -1
    /\ hoveredAxisIdx = -1
    /\ rdClicked = [si |-> -1, ai |-> -1]
    /\ rdEvent = "idle"

AreaHitIdle ==
    /\ areaN = 0
    /\ areaCanvas =
           [width |-> 0, dpr |-> 1, showYAxis |-> TRUE, interactive |-> TRUE]
    /\ areaMx = 0
    /\ areaHoveredIdx = -1
    /\ areaClicked = -1
    /\ areaEvent = "idle"

DonutDataIdle ==
    /\ ddData = <<>>
    /\ ddStacked = <<>>
    /\ ddSliceAngles = <<>>
    /\ ddRing = [innerR |-> 0, outerR |-> 0, dpr |-> 1]
    /\ ddHoveredIdx = -1
    /\ ddCall = [fn |-> "none", idx |-> -1, item |-> <<>>]
    /\ ddPointer = [dist |-> 0, angle |-> 0]
    /\ ddEvent = "idle"

ProgressIdle ==
    /\ pgWidget = "bar"
    /\ pgAnim = [enabled |-> FALSE, duration |-> 0, easing |-> "linear",
                 delay |-> 0, style |-> "none"]
    /\ pgN = 0
    /\ pgIdx = 0
    /\ pgElapsed = <<0, 1>>
    /\ pgProgress = <<1, 1>>
    /\ pgEvent = "idle"

SchedulerIdle ==
    sched = [widget |-> "none",
             animation |-> [given |-> FALSE, style |-> "none", duration |-> 0,
                            easing |-> "linear", delay |-> 0],
             n |-> 0, stackedN |-> 0, now |-> 0, animStartTime |-> 0,
             animating |-> FALSE, animFrame |-> 0, requests |-> {},
             nextId |-> 1, run |-> 0, lastDraw |-> <<>>, disposed |-> FALSE,
             event |-> "idle", frameRun |-> 0, completed |-> FALSE,
             elapsed |-> -1, cancelled |-> FALSE]

DepthIdle == depthChart = [event |-> "idle"]

EasingIdle == easingCase = [event |-> "idle"]

ListenersIdle == listeners = [event |-> "idle"]

ShorthandIdle == shorthand = [event |-> "idle"]

NeedleIdle == needle = [event |-> "idle"]

LateIdle ==
    DepthIdle /\ EasingIdle /\ ListenersIdle /\ ShorthandIdle /\ NeedleIdle

EarlierIdle ==
    /\ TreemapIdle /\ ThemeIdle /\ OptionsIdle /\ RectHitIdle /\ DonutIdle
    /\ RadarIdle /\ AreaHitIdle /\ DonutDataIdle /\ ProgressIdle
    /\ SchedulerIdle

RestIdle ==
    AreaHitIdle /\ DonutDataIdle /\ ProgressIdle /\ SchedulerIdle /\ LateIdle

-----------------------------------------------------------------------------
(* JavaScript number arithmetic.                                           *)

RECURSIVE GCD(_, _)
GCD(a, b) == IF b = 0 THEN a ELSE GCD(b, a % b)

Abs(i) == IF i < 0 THEN -i ELSE i

Sign(i) == IF i > 0 THEN 1 ELSE IF i < 0 THEN -1 ELSE 0

\* The operators of two arguments bind each argument once (x, y) before using
\* it, so that a nested expression is evaluated once however often the
\* operator's body mentions it.
NaN == <<0, 0>>

Infinity == <<1, 0>>

Norm(n, d) ==
    CHOOSE v \in
        { IF y = 0 THEN <<Sign(x), 0>>
          ELSE LET s == IF y < 0 THEN -1 ELSE 1
                   g == GCD(Abs(x), Abs(y))
               IN  <<(s * x) \div g, (s * y) \div g>>
          : x \in {n}, y \in {d} } : TRUE

Num(i) == <<i, 1>>

IsNaN(a) == a = NaN

IsFinite(a) == a[2] # 0

Add(a, b) ==
    CHOOSE v \in
        { IF IsNaN(x) \/ IsNaN(y) THEN NaN
          ELSE IF x[2] = 0 /\ y[2] = 0 THEN (IF x[1] = y[1] THEN x ELSE NaN)
          ELSE IF x[2] = 0 THEN x
          ELSE IF y[2] = 0 THEN y
          ELSE Norm(x[1] * y[2] + y[1] * x[2], x[2] * y[2])
          : x \in {a}, y \in {b} } : TRUE

Neg(a) == <<-a[1], a[2]>>

Sub(a, b) == Add(a, Neg(b))

Mul(a, b) ==
    CHOOSE v \in
        { Norm(x[1] * y[1], x[2] * y[2])
          : x \in {a}, y \in {b} } : TRUE

Div(a, b) ==
    CHOOSE v \in
        { IF y[1] < 0 THEN Norm(-(x[1] * y[2]), -(x[2] * y[1]))
          ELSE Norm(x[1] * y[2], x[2] * y[1])
          : x \in {a}, y \in {b} } : TRUE

Lt(a, b) ==
    CHOOSE v \in
        { IF IsNaN(x) \/ IsNaN(y) THEN FALSE
          ELSE IF x[2] = 0 /\ y[2] = 0 THEN x[1] < y[1]
          ELSE IF x[2] = 0 THEN x[1] < 0
          ELSE IF y[2] = 0 THEN y[1] > 0
          ELSE x[1] * y[2] < y[1] * x[2]
          : x \in {a}, y \in {b} } : TRUE

Le(a, b) ==
    CHOOSE v \in
        { IF IsNaN(x) \/ IsNaN(y) THEN FALSE
          ELSE x = y \/ Lt(x, y)
          : x \in {a}, y \in {b} } : TRUE

Gt(a, b) == Lt(b, a)

Ge(a, b) == Le(b, a)

\* Math.max(a, b): NaN when either argument is NaN.
MathMax(a, b) ==
    CHOOSE v \in
        { IF IsNaN(x) \/ IsNaN(y) THEN NaN
          ELSE IF Lt(x, y) THEN y ELSE x
          : x \in {a}, y \in {b} } : TRUE

\* Math.min(a, b): NaN when either argument is NaN.
MathMin(a, b) ==
    CHOOSE v \in
        { IF IsNaN(x) \/ IsNaN(y) THEN NaN
          ELSE IF Lt(y, x) THEN y ELSE x
          : x \in {a}, y \in {b} } : TRUE

-----------------------------------------------------------------------------
(* Treemap layout: Heatmap.ts, layoutTreemap / squarify / worst /          *)
(* layoutRow.                                                              *)

\* row.reduce((s, i) => s + i.weight, 0)
RECURSIVE sumWeight(_)
sumWeight(row) ==
    IF row = <<>> THEN 0 ELSE row[1].weight + sumWeight(Tail(row))

\* items.slice().sort((a, b) => b.weight - a.weight): a stable sort by
\* descending weight (insertion of each item behind the items that do not
\* weigh less).
RECURSIVE insertSorted(_, _)
insertSorted(s, it) ==
    IF s = <<>> THEN <<it>>
    ELSE IF s[1].weight >= it.weight THEN <<s[1]>> \o insertSorted(Tail(s), it)
    ELSE <<it>> \o s

RECURSIVE sortByWeight(_)
sortByWeight(s) ==
    IF s = <<>> THEN <<>>
    ELSE insertSorted(sortByWeight(SubSeq(s, 1, Len(s) - 1)), s[Len(s)])

\* The loop of worst(): the largest max(side/other, other/side) of the row,
\* starting from maxR; an r that is NaN never replaces maxR.
RECURSIVE worstLoop(_, _, _, _, _, _, _)
worstLoop(row, rowWeight, isWide, side, w, h, maxR) ==
    IF row = <<>> THEN maxR
    ELSE LET itemFrac == Div(Num(row[1].weight), Num(rowWeight))
             other == IF isWide THEN Mul(itemFrac, h) ELSE Mul(itemFrac, w)
             r == MathMax(Div(side, other), Div(other, side))
         IN  worstLoop(Tail(row), rowWeight, isWide, side, w, h,
                       IF Gt(r, maxR) THEN r ELSE maxR)

worst(row, w, h, area, totalArea) ==
    LET rowWeight == sumWeight(row)
        fraction == Div(Num(rowWeight), Num(totalArea))
        isWide == Ge(w, h)
        side == IF isWide THEN Mul(fraction, w) ELSE Mul(fraction, h)
    IN  IF Le(side, Num(0)) THEN Infinity
        ELSE worstLoop(row, rowWeight, isWide, side, w, h, Num(0))

\* The loop of layoutRow(): one rectangle per item of the row, in row order.
RECURSIVE layoutRowLoop(_, _, _, _, _, _, _, _, _)
layoutRowLoop(row, rowWeight, isWide, offset, x, y, w, h, g) ==
    IF row = <<>> THEN <<>>
    ELSE LET item == row[1]
             frac == Div(Num(item.weight), Num(rowWeight))
             rh == IF isWide THEN Mul(frac, h) ELSE h
             rw == IF isWide THEN w ELSE Mul(frac, w)
             rx == IF isWide THEN x ELSE Add(x, offset)
             ry == IF isWide THEN Add(y, offset) ELSE y
             next == IF isWide THEN Add(offset, rh) ELSE Add(offset, rw)
             half == Div(g, Num(2))
         IN  <<[x |-> Add(rx, half), y |-> Add(ry, half),
                w |-> MathMax(Num(0), Sub(rw, g)),
                h |-> MathMax(Num(0), Sub(rh, g)),
                item |-> item]>>
             \o layoutRowLoop(Tail(row), rowWeight, isWide, next, x, y, w, h, g)

\* A layoutRow that takes each item's share of totalArea, the weight not yet
\* laid out, instead of its share of the row's weight.
layoutRow_ShareOfTotal(row, x, y, w, h, totalArea, g) ==
    IF Len(row) = 0 THEN <<>>
    ELSE layoutRowLoop(row, totalArea, Ge(w, h), Num(0), x, y, w, h, g)

\* layoutRow(row, x, y, w, h, totalArea, out, gap): the rectangles it pushes
\* on out.
layoutRow(row, x, y, w, h, totalArea, g) ==
    IF Len(row) = 0 THEN <<>>
    ELSE layoutRowLoop(row, sumWeight(row), Ge(w, h), Num(0), x, y, w, h, g)

\* squarify(children, row, x, y, w, h, totalArea, out, gap): the rectangles
\* it pushes on out.  totalArea is the weight not yet laid out.
RECURSIVE squarify(_, _, _, _, _, _, _, _)

\* A squarify that, after flushing a row, lays out the rest against the
\* whole totalArea instead of totalArea - rowWeight.
squarify_KeepTotal(children, row, x, y, w, h, totalArea, g) ==
    IF Len(children) = 0 THEN layoutRow(row, x, y, w, h, totalArea, g)
    ELSE LET area == Mul(w, h)
             c == children[1]
             newRow == Append(row, c)
         IN  IF Len(row) = 0
                \/ Le(worst(newRow, w, h, area, totalArea),
                      worst(row, w, h, area, totalArea))
             THEN squarify(Tail(children), newRow, x, y, w, h, totalArea, g)
             ELSE LET rowWeight == sumWeight(row)
                      fraction == Div(Num(rowWeight), Num(totalArea))
                      isWide == Ge(w, h)
                      rowW == Mul(fraction, w)
                      rowH == Mul(fraction, h)
                  IN  IF isWide
                      THEN layoutRow(row, x, y, rowW, h, totalArea, g)
                           \o squarify(children, <<>>, Add(x, rowW), y,
                                       Sub(w, rowW), h, totalArea, g)
                      ELSE layoutRow(row, x, y, w, rowH, totalArea, g)
                           \o squarify(children, <<>>, x, Add(y, rowH),
                                       w, Sub(h, rowH), totalArea, g)

squarify(children, row, x, y, w, h, totalArea, g) ==
    IF Len(children) = 0 THEN layoutRow(row, x, y, w, h, totalArea, g)
    ELSE LET area == Mul(w, h)
             c == children[1]
             newRow == Append(row, c)
         IN  IF Len(row) = 0
                \/ Le(worst(newRow, w, h, area, totalArea),
                      worst(row, w, h, area, totalArea))
             THEN squarify(Tail(children), newRow, x, y, w, h, totalArea, g)
             ELSE LET rowWeight == sumWeight(row)
                      fraction == Div(Num(rowWeight), Num(totalArea))
                      isWide == Ge(w, h)
                      rowW == Mul(fraction, w)
                      rowH == Mul(fraction, h)
                  IN  IF isWide
                      THEN layoutRow(row, x, y, rowW, h, totalArea, g)
                           \o squarify(children, <<>>, Add(x, rowW), y,
                                       Sub(w, rowW), h,
                                       totalArea - rowWeight, g)
                      ELSE layoutRow(row, x, y, w, rowH, totalArea, g)
                           \o squarify(children, <<>>, x, Add(y, rowH),
                                       w, Sub(h, rowH),
                                       totalArea - rowWeight, g)

layoutTreemap(its, x, y, w, h, g) ==
    IF Len(its) = 0 THEN <<>>
    ELSE LET sorted == sortByWeight(its)
             totalWeight == sumWeight(sorted)
         IN  IF totalWeight <= 0 THEN <<>>
             ELSE squarify(sorted, <<>>, Num(x), Num(y), Num(w), Num(h),
                           totalWeight, Num(g))

-----------------------------------------------------------------------------
(* Colour strings.  A colour string is modelled by what the resolver reads  *)
(* of it: its spelling (kind) and its digits or channels.                   *)
(*   hex          "#" followed by the hex digits (values 0..15)             *)
(*   rgb          "rgb(r, g, b)"                                            *)
(*   rgba         "rgba(r, g, b, a)", a in tenths                           *)
(*   transparent  the keyword "transparent"                                 *)
(*   empty        ""                                                        *)

Colour(k, ds, r, g, b, a) ==
    [kind |-> k, digits |-> ds, r |-> r, g |-> g, b |-> b, a |-> a]

HexColour(ds) == Colour("hex", ds, 0, 0, 0, 10)

RgbColour(r, g, b) == Colour("rgb", <<>>, r, g, b, 10)

RgbaColour(r, g, b, a) == Colour("rgba", <<>>, r, g, b, a)

Transparent == Colour("transparent", <<>>, 0, 0, 0, 0)

EmptyColour == Colour("empty", <<>>, 0, 0, 0, 0)

\* "rgba(0, 0, 0, 0)", the computed value of a transparent background.
RgbaZero == RgbaColour(0, 0, 0, 0)

\* The two hex digits of a channel value 0..255.
HexPair(v) == <<v \div 16, v % 16>>

Hex6(r, g, b) == HexColour(HexPair(r) \o HexPair(g) \o HexPair(b))

-----------------------------------------------------------------------------
(* Theme resolver: isLightBg / hexLuminance / parseLuminance              *)
(* (Heatmap.ts 215-250; the same text in BarChart.ts, Gauge.ts,            *)
(* DepthChart.ts, Sparkline.ts, RadarChart.ts and the area chart).         *)

\* parseInt(hex.substring(from, to), 16) || 0 on a string of hex digits: the
\* value of the digits present, 0 when the substring is empty (NaN || 0).
RECURSIVE digitsValue(_)
digitsValue(ds) ==
    IF ds = <<>> THEN 0
    ELSE 16 * digitsValue(SubSeq(ds, 1, Len(ds) - 1)) + ds[Len(ds)]

parseIntHex(ds, from, to) ==
    LET hi == IF to < Len(ds) THEN to ELSE Len(ds)
    IN  IF from >= hi THEN 0 ELSE digitsValue(SubSeq(ds, from + 1, hi))

\* (r * 299 + g * 587 + b * 114) / 1000 > 150
luminanceAbove(r, g, b) ==
    Gt(Div(Num(r * 299 + g * 587 + b * 114), Num(1000)), Num(150))

hexLuminance(c) ==
    IF c.kind = "hex"
    THEN LET r == parseIntHex(c.digits, 0, 2)
             g == parseIntHex(c.digits, 2, 4)
             b == parseIntHex(c.digits, 4, 6)
         IN  luminanceAbove(r, g, b)
    ELSE FALSE

\* color.match(/rgba?\(\s*(\d+),\s*(\d+),\s*(\d+)/) matches the rgb and rgba
\* spellings and captures their three channels.
parseLuminance(c) ==
    IF c.kind = "hex" THEN hexLuminance(c)
    ELSE IF c.kind \in {"rgb", "rgba"} THEN luminanceAbove(c.r, c.g, c.b)
    ELSE FALSE

\* The test of the walk: c && c !== 'transparent' && c !== 'rgba(0, 0, 0, 0)'
stopsWalk(c) == c # EmptyColour /\ c # Transparent /\ c # RgbaZero

\* The while loop of isLightBg from node n of the chain on.
RECURSIVE walkFrom(_, _)
walkFrom(ch, n) ==
    IF n > Len(ch) THEN FALSE
    ELSE IF stopsWalk(ch[n]) THEN parseLuminance(ch[n])
    ELSE walkFrom(ch, n + 1)

\* The boolean isLightBg returns, as the variable light records it.
Theme(isLight) == IF isLight THEN "light" ELSE "dark"

\* isLightBg(bg, el): ch is the chain of computed backgrounds from el up,
\* <<>> when el is not given.
isLightBg(b, ch) ==
    IF b = Transparent /\ ch # <<>> THEN walkFrom(ch, 1)
    ELSE hexLuminance(b)

-----------------------------------------------------------------------------
(* The resolver as a state machine: one call of isLightBg, the walk taken  *)
(* one loop iteration at a time.                                           *)

Channels == {0, 150, 151, 200, 255}

ExplicitColours ==
    {Hex6(r, g, b) : r \in Channels, g \in Channels, b \in Channels}
    \cup {RgbColour(r, g, b) : r \in Channels, g \in Channels, b \in Channels}
    \cup {RgbaColour(v, v, v, a) : v \in Channels, a \in {5, 10}}

\* What getComputedStyle(node).backgroundColor can read.
ComputedColours ==
    {EmptyColour, Transparent, RgbaZero}
    \cup {RgbColour(v, v, v) : v \in {0, 150, 151, 255}}
    \cup {RgbaColour(255, 255, 255, 5), RgbaColour(0, 0, 0, 5),
          RgbaColour(255, 255, 255, 0)}

Chains == UNION {[1..n -> ComputedColours] : n \in 1..MaxDepth}

ThemeInit ==
    /\ \/ bg \in ExplicitColours /\ chain \in {<<>>, <<RgbColour(255, 255, 255)>>}
       \/ bg = Transparent /\ chain \in Chains \cup {<<>>}
    /\ node = 0
    /\ light = "none"
    /\ thPc = "call"

\* isLightBg is entered: the walk starts at el, or hexLuminance(bg) is
\* returned at once.
IsLightBgCall ==
    /\ thPc = "call"
    /\ IF bg = Transparent /\ chain # <<>>
       THEN /\ node' = 1
            /\ thPc' = "walk"
            /\ light' = light
       ELSE /\ light' = Theme(hexLuminance(bg))
            /\ thPc' = "done"
            /\ node' = node
    /\ UNCHANGED <<bg, chain>>
    /\ UNCHANGED otherThanTheme

\* One iteration of while (node) { ... node = node.parentElement }, or the
\* return false behind the loop.
WalkStep ==
    /\ thPc = "walk"
    /\ IF node > Len(chain)
       THEN /\ light' = Theme(FALSE)
            /\ thPc' = "done"
            /\ node' = node
       ELSE IF stopsWalk(chain[node])
       THEN /\ light' = Theme(parseLuminance(chain[node]))
            /\ thPc' = "done"
            /\ node' = node
       ELSE /\ node' = node + 1
            /\ UNCHANGED <<light, thPc>>
    /\ UNCHANGED <<bg, chain>>
    /\ UNCHANGED otherThanTheme

ThemeNext == IsLightBgCall \/ WalkStep

\* The walk is a synchronous loop: it keeps running until it returns.
InitTheme ==
    ThemeInit /\ TreemapIdle /\ OptionsIdle /\ RectHitIdle /\ DonutIdle
        /\ RadarIdle /\ RestIdle

SpecTheme == InitTheme /\ [][ThemeNext]_vars /\ WF_vars(ThemeNext)

-----------------------------------------------------------------------------
(* Claims about the theme resolver.                                        *)

\* The channels a colour string denotes: "#rrggbb" (and the first six digits
\* of a longer one), "#rgb" with every digit doubled, or the channels of an
\* rgb()/rgba() string.
ChannelsOf(c) ==
    IF c.kind = "hex"
    THEN IF Len(c.digits) >= 6
         THEN <<16 * c.digits[1] + c.digits[2],
                16 * c.digits[3] + c.digits[4],
                16 * c.digits[5] + c.digits[6]>>
         ELSE <<17 * c.digits[1], 17 * c.digits[2], 17 * c.digits[3]>>
    ELSE <<c.r, c.g, c.b>>

\* 0.299 r + 0.587 g + 0.114 b > 150
LightByRule(c) ==
    LET ch == ChannelsOf(c)
    IN  299 * ch[1] + 587 * ch[2] + 114 * ch[3] > 150000

\* C4 (explicit background): for an explicit colour given as a hex string or
\* as an rgb()/rgba() string, the resolver returns light iff
\* 0.299 r + 0.587 g + 0.114 b > 150.
C4_ExplicitLuminance ==
    (thPc = "done" /\ bg.kind \in {"hex", "rgb", "rgba"}) =>
        light = Theme(LightByRule(bg))

\* A background colour that is not transparent: a hex or rgb() colour, or an
\* rgba() colour whose alpha is not 0 ("rgba(0, 0, 0, 0)" is the computed
\* spelling of the keyword transparent, "" reads as no colour).
NonTransparent(c) ==
    \/ c.kind \in {"hex", "rgb"}
    \/ c.kind = "rgba" /\ c.a > 0

NearestNonTransparent(ch) ==
    CHOOSE i \in 1..Len(ch) :
        /\ NonTransparent(ch[i])
        /\ \A j \in 1..(i - 1) : ~NonTransparent(ch[j])

C5_Result ==
    (thPc = "done" /\ bg = Transparent /\ chain # <<>>) =>
        light = IF \E i \in 1..Len(chain) : NonTransparent(chain[i])
                THEN Theme(LightByRule(chain[NearestNonTransparent(chain)]))
                ELSE "dark"

\* C5 (transparent background): with background "transparent" and an
\* ambient node, the walk up the parent chain terminates, and its result is
\* the luminance classification of the nearest node, from the given node on,
\* whose background colour is not transparent; dark when there is none up to
\* the root.
C5_WalkResolves == [](C5_Result) /\ <>(thPc = "done")

-----------------------------------------------------------------------------
(* The treemap as a state machine: the inputs are drawn, then the layout   *)
(* is computed by one call.                                                *)

\* Item lists: weights as the data model has them (weight >= 0), ids are the
\* positions in the input list.
WeightLists ==
    UNION {[1..n -> 0..MaxWeight] : n \in 0..MaxItems}

ItemsOf(ws) == [i \in 1..Len(ws) |-> [id |-> i, weight |-> ws[i]]]

Origins == {<<0, 0>>, <<1, 2>>}

\* The end-to-end scenario of the specification: weights 50/30/20 in a
\* 100 x 100 region at the origin, gap 0.
ScenarioWeights == <<50, 30, 20>>

ScenarioRegion == [x |-> 0, y |-> 0, w |-> 100, h |-> 100]

TreemapInit ==
    /\ \/ /\ \E ws \in WeightLists : items = ItemsOf(ws)
          /\ \E o \in Origins, w \in 1..MaxSide, h \in 1..MaxSide :
                 region = [x |-> o[1], y |-> o[2], w |-> w, h |-> h]
          /\ gap \in 0..MaxGap
       \/ /\ items = ItemsOf(ScenarioWeights)
          /\ region = ScenarioRegion
          /\ gap = 0
    /\ rects = <<>>
    /\ tmPc = "input"

Layout ==
    /\ tmPc = "input"
    /\ rects' = layoutTreemap(items, region.x, region.y, region.w, region.h, gap)
    /\ tmPc' = "done"
    /\ UNCHANGED <<items, region, gap>>
    /\ UNCHANGED otherThanTreemap

InitTreemap ==
    TreemapInit /\ ThemeIdle /\ OptionsIdle /\ RectHitIdle /\ DonutIdle
        /\ RadarIdle /\ RestIdle

SpecTreemap == InitTreemap /\ [][Layout]_vars

-----------------------------------------------------------------------------
(* Claims about the treemap layout.                                        *)

AllPositive == \A i \in 1..Len(items) : items[i].weight > 0

RectArea(r) == Mul(r.w, r.h)

RECURSIVE SumAreas(_)
SumAreas(rs) ==
    IF rs = <<>> THEN Num(0) ELSE Add(RectArea(rs[1]), SumAreas(Tail(rs)))

RegionArea == Num(region.w * region.h)

InsideRegion(r) ==
    /\ Ge(r.x, Num(region.x))
    /\ Ge(r.y, Num(region.y))
    /\ Le(Add(r.x, r.w), Num(region.x + region.w))
    /\ Le(Add(r.y, r.h), Num(region.y + region.h))

InteriorsOverlap(a, b) ==
    /\ Lt(a.x, Add(b.x, b.w))
    /\ Lt(b.x, Add(a.x, a.w))
    /\ Lt(a.y, Add(b.y, b.h))
    /\ Lt(b.y, Add(a.y, a.h))

TotalWeight == sumWeight(items)

\* C1 (treemap tiling): for a non-empty list of positive weights, a region
\* with w > 0 and h > 0 and gap = 0, the rectangles returned by layoutTreemap
\* all lie inside the region, no two of them overlap in their interiors, and
\* their areas sum to w * h.
C1_Tiling ==
    (tmPc = "done" /\ Len(items) > 0 /\ AllPositive /\ gap = 0) =>
        /\ \A i \in 1..Len(rects) : InsideRegion(rects[i])
        /\ \A i, j \in 1..Len(rects) :
               i # j => ~InteriorsOverlap(rects[i], rects[j])
        /\ SumAreas(rects) = RegionArea

\* The scenario of the specification has been laid out: areas 5000, 3000
\* and 2000.
C1_Witness ==
    /\ tmPc = "done"
    /\ items = ItemsOf(ScenarioWeights)
    /\ region = ScenarioRegion
    /\ gap = 0
    /\ Len(rects) = 3
    /\ \E i, j, k \in 1..3 :
           /\ RectArea(rects[i]) = Num(5000)
           /\ RectArea(rects[j]) = Num(3000)
           /\ RectArea(rects[k]) = Num(2000)

\* C2 (treemap proportionality): with gap = 0 and all weights positive,
\* every item has exactly one rectangle, and its area divided by the region
\* area equals the item's weight divided by the total weight.
C2_Proportional ==
    (tmPc = "done" /\ Len(items) > 0 /\ AllPositive /\ gap = 0) =>
        /\ Len(rects) = Len(items)
        /\ \A i \in 1..Len(items) :
               \E k \in 1..Len(rects) : rects[k].item = items[i]
        /\ \A k \in 1..Len(rects) :
               Div(RectArea(rects[k]), RegionArea)
                   = Div(Num(rects[k].item.weight), Num(TotalWeight))

\* Two items with w1 = 2 * w2 have been laid out in different strips of a
\* non-square region, and area1 = 2 * area2.
C2_Witness ==
    /\ tmPc = "done" /\ gap = 0 /\ AllPositive
    /\ region.w # region.h
    /\ \E a, b \in 1..Len(rects) :
           /\ rects[a].item.weight = 2 * rects[b].item.weight
           /\ rects[a].x # rects[b].x
           /\ rects[a].y # rects[b].y
           /\ RectArea(rects[a]) = Mul(Num(2), RectArea(rects[b]))

\* C3 (exclusion of non-positive weights): the output of layoutTreemap holds
\* no rectangle whose item has weight <= 0, and it is empty when every item
\* has weight <= 0.
C3_NonPositiveExcluded ==
    tmPc = "done" =>
        /\ \A k \in 1..Len(rects) : rects[k].item.weight > 0
        /\ (\A i \in 1..Len(items) : items[i].weight <= 0) => rects = <<>>

-----------------------------------------------------------------------------
(* Widget options: what create and setOptions of every widget do with      *)
(* background and with the colours that default from the light/dark         *)
(* decision.  Of the options that no code path derives from another, one is *)
(* kept: showLabels (bar chart and depth chart), "true"/"false" for the     *)
(* booleans.  An option a call does not name reads as undefined.            *)

Widgets == {"heatmap", "bar", "radar", "donut", "area", "gauge", "depth"}

ColourNames ==
    {"textColor", "gridColor", "neutralColor", "trackColor", "needleColor"}

OptionNames == ColourNames \cup {"background", "showLabels"}

\* The colours of widget k that default from the light/dark decision.
Fields(k) ==
    CASE k = "heatmap" -> {"textColor", "neutralColor"}
      [] k \in {"bar", "radar", "area", "depth"} -> {"textColor", "gridColor"}
      [] k = "donut" -> {"textColor"}
      [] k = "gauge" -> {"trackColor", "needleColor", "textColor"}

Names(k) ==
    Fields(k) \cup {"background"}
        \cup (IF k \in {"bar", "depth"} THEN {"showLabels"} ELSE {})

UndefinedColour == Colour("undefined", <<>>, 0, 0, 0, 0)

Undefined(n) == IF n = "background" THEN UndefinedColour ELSE "undefined"

\* o.n !== undefined
Named(o, n) == o[n] # Undefined(n)

\* light ? '...' : '...' of widget k for option n
DefaultColour(k, n, isLight) ==
    CASE k = "heatmap" /\ n = "textColor" ->
             IF isLight THEN "#334155" ELSE "#e6edf3"
      [] k = "heatmap" /\ n = "neutralColor" ->
             IF isLight THEN "#e2e8f0" ELSE "#2a2e39"
      [] k \in {"bar", "radar", "donut", "area"} /\ n = "textColor" ->
             IF isLight THEN "#1e293b" ELSE "#e6edf3"
      [] k \in {"bar", "area"} /\ n = "gridColor" ->
             IF isLight THEN "rgba(0,0,0,0.1)" ELSE "rgba(255,255,255,0.06)"
      [] k = "radar" /\ n = "gridColor" ->
             IF isLight THEN "rgba(0,0,0,0.18)" ELSE "rgba(255,255,255,0.12)"
      [] k = "gauge" /\ n = "trackColor" ->
             IF isLight THEN "#e2e8f0" ELSE "#2a2e39"
      [] k = "gauge" /\ n \in {"needleColor", "textColor"} ->
             IF isLight THEN "#334155" ELSE "#e6edf3"
      [] k = "depth" /\ n = "textColor" ->
             IF isLight THEN "#334155" ELSE "#787b86"
      [] k = "depth" /\ n = "gridColor" ->
             IF isLight THEN "rgba(0,0,0,0.08)" ELSE "rgba(255,255,255,0.06)"

\* { ...cur, ...o }
spread(cur, o) ==
    [n \in OptionNames |-> IF Named(o, n) THEN o[n] ELSE cur[n]]

\* The resolved options after createX(container, options): background
\* defaults to 'transparent', the colours to the defaults of the light/dark
\* decision, showLabels to true.
createOptions(k, options, ch) ==
    LET b == IF Named(options, "background")
             THEN options["background"] ELSE Transparent
        isLight == isLightBg(b, ch)
    IN  [n \in OptionNames |->
            IF n = "background" THEN b
            ELSE IF n \notin Names(k) THEN Undefined(n)
            ELSE IF Named(options, n) THEN options[n]
            ELSE IF n = "showLabels" THEN "true"
            ELSE DefaultColour(k, n, isLight)]

\* applyOptions of the bar chart, the radar chart, the donut chart and the
\* area chart: inside the background branch a colour the call does not name
\* is set to the default; behind it a named colour is assigned.
applyOptions(k, cur, o, ch) ==
    LET merged == spread(cur, o)
        isLight == isLightBg(merged["background"], ch)
    IN  [n \in OptionNames |->
            IF Named(o, "background") /\ n \in Fields(k) /\ ~Named(o, n)
            THEN DefaultColour(k, n, isLight)
            ELSE merged[n]]

\* applyOptions of the heatmap: the spread, then the same background branch.
applyOptions_Heatmap(cur, o, ch) ==
    LET merged == spread(cur, o)
        isLight == isLightBg(merged["background"], ch)
    IN  IF Named(o, "background")
        THEN [n \in OptionNames |->
                 IF n \in Fields("heatmap") /\ ~Named(o, n)
                 THEN DefaultColour("heatmap", n, isLight)
                 ELSE merged[n]]
        ELSE merged

\* setOptions of the gauge: the three colours are recomputed together, and
\* only when the call names background and none of the three.
setOptions_Gauge(cur, o, ch) ==
    LET merged == spread(cur, o)
        lightNew == isLightBg(merged["background"], ch)
    IN  IF /\ Named(o, "background")
           /\ ~Named(o, "trackColor")
           /\ ~Named(o, "needleColor")
           /\ ~Named(o, "textColor")
        THEN [n \in OptionNames |->
                 IF n \in Fields("gauge")
                 THEN DefaultColour("gauge", n, lightNew)
                 ELSE merged[n]]
        ELSE merged

\* resolveTextGridColors(explicitOpts) of the depth chart, on the merged
\* options cur.
resolveTextGridColors(cur, explicitOpts, ch) ==
    IF cur["background"] # Transparent THEN cur
    ELSE LET isLight == isLightBg(cur["background"], ch)
         IN  [n \in OptionNames |->
                 IF n \in Fields("depth") /\ ~Named(explicitOpts, n)
                 THEN DefaultColour("depth", n, isLight)
                 ELSE cur[n]]

setOptions_Depth(cur, newOpts, ch) ==
    resolveTextGridColors(spread(cur, newOpts), newOpts, ch)

setOptionsOf(k, cur, o, ch) ==
    CASE k = "heatmap" -> applyOptions_Heatmap(cur, o, ch)
      [] k \in {"bar", "radar", "donut", "area"} -> applyOptions(k, cur, o, ch)
      [] k = "gauge" -> setOptions_Gauge(cur, o, ch)
      [] k = "depth" -> setOptions_Depth(cur, o, ch)

-----------------------------------------------------------------------------
(* The options of one widget as a state machine: the widget is created     *)
(* with some options in some container, then setOptions is called with     *)
(* partial options any number of times.                                    *)

Backgrounds == {Transparent, Hex6(0, 0, 0), Hex6(255, 255, 255)}

\* A light container, and a transparent container on a dark page.
Containers ==
    {<<RgbColour(255, 255, 255)>>, <<RgbaZero, RgbColour(0, 0, 0)>>}

\* A colour of the caller's, different from every default.
UserColour == "#ff00ff"

\* The option objects a caller hands to createX or to setOptions of widget k.
Partials(k) ==
    {[n \in OptionNames |->
         IF n = "background" THEN b
         ELSE IF n = "showLabels" THEN sl
         ELSE IF n \in cs THEN UserColour
         ELSE "undefined"] :
       b \in Backgrounds \cup {UndefinedColour},
       sl \in IF "showLabels" \in Names(k)
              THEN {"undefined", "true", "false"} ELSE {"undefined"},
       cs \in SUBSET Fields(k)}

OptionsInit ==
    /\ widget \in Widgets
    /\ container \in Containers
    /\ \E options \in Partials(widget) :
           /\ opts = createOptions(widget, options, container)
           /\ supplied = options
    /\ bgChanged = FALSE

\* setOptions(o) of widget k.  The drawing that follows the merge reads the
\* options and changes none of them.
SetOptions(k) ==
    /\ widget = k
    /\ \E o \in Partials(k) :
           /\ opts' = setOptionsOf(k, opts, o, container)
           /\ supplied' = spread(supplied, o)
           /\ bgChanged' = (Named(o, "background")
                               /\ o["background"] # opts["background"])
    /\ UNCHANGED <<widget, container>>
    /\ UNCHANGED otherThanOptions

HeatmapSetOptions == SetOptions("heatmap")

BarSetOptions == SetOptions("bar")

RadarSetOptions == SetOptions("radar")

DonutSetOptions == SetOptions("donut")

AreaSetOptions == SetOptions("area")

GaugeSetOptions == SetOptions("gauge")

DepthSetOptions == SetOptions("depth")

OptionsNext ==
    \/ HeatmapSetOptions
    \/ BarSetOptions
    \/ RadarSetOptions
    \/ DonutSetOptions
    \/ AreaSetOptions
    \/ GaugeSetOptions
    \/ DepthSetOptions

InitOptions ==
    OptionsInit /\ TreemapIdle /\ ThemeIdle /\ RectHitIdle /\ DonutIdle
        /\ RadarIdle /\ RestIdle

SpecOptions == InitOptions /\ [][OptionsNext]_vars

-----------------------------------------------------------------------------
(* Claims about the options.                                               *)

\* C6 (light/dark recomputed on a background change): after a setOptions
\* call that changed background, every colour that defaults from the
\* light/dark decision and that the caller never supplied equals the
\* default for the classification of the new background, in every widget.
C6_RecomputedOnBackgroundChange ==
    bgChanged =>
        \A n \in Fields(widget) :
            ~Named(supplied, n) =>
                opts[n] = DefaultColour(widget, n,
                              isLightBg(opts["background"], container))

\* C7 (setOptions is a shallow merge): every option the caller supplied, at
\* create or in a setOptions, still has the value supplied last, whatever
\* setOptions calls that do not name it came after.
C7_ShallowMerge ==
    \A n \in Names(widget) :
        Named(supplied, n) => opts[n] = supplied[n]

-----------------------------------------------------------------------------
(* Rect hit-testing: the mouse handlers of the bar chart and the click     *)
(* listener of the heatmap.  Indices are those of the code, from 0.        *)

\* mx >= r.x && mx <= r.x + r.w && my >= r.y && my <= r.y + r.h
inRect(r, mx, my) ==
    /\ mx >= r.x
    /\ mx <= r.x + r.w
    /\ my >= r.y
    /\ my <= r.y + r.h

\* A scan that goes on after a match, so that the last match stays.
RECURSIVE scanHits_NoBreak(_, _, _, _)
scanHits_NoBreak(rs, mx, my, i) ==
    IF i >= Len(rs) THEN -1
    ELSE LET later == scanHits_NoBreak(rs, mx, my, i + 1)
         IN  IF later # -1 THEN later
             ELSE IF inRect(rs[i + 1], mx, my) THEN i ELSE -1

\* for (let i = 0; i < hits.length; i++) { if (...) { hit = i; break; } }
\* from index i on; -1 when the loop ends without a match.
RECURSIVE scanHits(_, _, _, _)
scanHits(rs, mx, my, i) ==
    IF i >= Len(rs) THEN -1
    ELSE IF inRect(rs[i + 1], mx, my) THEN i
    ELSE scanHits(rs, mx, my, i + 1)

Rect(x, y, w, h) == [x |-> x, y |-> y, w |-> w, h |-> h]

\* Bars next to each other (touching on x = 2), a bar over both, and bars
\* of no width or no height.
HitRects ==
    {Rect(0, 0, 2, 2), Rect(2, 0, 2, 2), Rect(0, 0, 4, 2),
     Rect(2, 0, 0, 2), Rect(0, 2, 2, 0)}

HitLists == UNION {[1..n -> HitRects] : n \in 0..MaxHits}

Pointers == [mx : -1..5, my : -1..3]

RectHitInit ==
    /\ htWidget \in {"bar", "heatmap"}
    /\ hits \in HitLists
    /\ pointer = [mx |-> -1, my |-> -1]
    /\ hoveredHitIdx = -1
    /\ clicked = -1
    /\ htEvent = "none"

\* onMouseMove(e) of the bar chart; the redraw and the onHover call it makes
\* on a change leave the record list as it is.
onMouseMove ==
    /\ htWidget = "bar"
    /\ \E p \in Pointers :
           /\ pointer' = p
           /\ hoveredHitIdx' = scanHits(hits, p.mx, p.my, 0)
    /\ clicked' = -1
    /\ htEvent' = "move"
    /\ UNCHANGED <<htWidget, hits>>
    /\ UNCHANGED otherThanRectHit

onMouseLeave ==
    /\ htWidget = "bar"
    /\ hoveredHitIdx' = -1
    /\ clicked' = -1
    /\ htEvent' = "leave"
    /\ UNCHANGED <<htWidget, hits, pointer>>
    /\ UNCHANGED otherThanRectHit

\* onMouseClick(e) of the bar chart: onClick is called for the first record
\* that matches.
onMouseClick ==
    /\ htWidget = "bar"
    /\ \E p \in Pointers :
           /\ pointer' = p
           /\ clicked' = scanHits(hits, p.mx, p.my, 0)
    /\ htEvent' = "click"
    /\ UNCHANGED <<htWidget, hits, hoveredHitIdx>>
    /\ UNCHANGED otherThanRectHit

\* The click listener of the heatmap: for (const r of rects) { ... break }
heatmapClick ==
    /\ htWidget = "heatmap"
    /\ \E p \in Pointers :
           /\ pointer' = p
           /\ clicked' = scanHits(hits, p.mx, p.my, 0)
    /\ htEvent' = "click"
    /\ UNCHANGED <<htWidget, hits, hoveredHitIdx>>
    /\ UNCHANGED otherThanRectHit

RectHitNext == onMouseMove \/ onMouseLeave \/ onMouseClick \/ heatmapClick

InitRectHit ==
    RectHitInit /\ TreemapIdle /\ ThemeIdle /\ OptionsIdle /\ DonutIdle
        /\ RadarIdle /\ RestIdle

SpecRectHit == InitRectHit /\ [][RectHitNext]_vars

-----------------------------------------------------------------------------
(* Claims about rect hit-testing.                                          *)

\* The pointer lies in the closed rectangle of record k (index from 0).
PointerIn(k) ==
    LET r == hits[k + 1]
    IN  /\ r.x <= pointer.mx /\ pointer.mx <= r.x + r.w
        /\ r.y <= pointer.my /\ pointer.my <= r.y + r.h

\* The pointer is at the centre of record k.
PointerAtCentre(k) ==
    LET r == hits[k + 1]
    IN  2 * pointer.mx = 2 * r.x + r.w /\ 2 * pointer.my = 2 * r.y + r.h

\* What the last event found: the hovered index after a move, the record
\* handed to onClick after a click.
HitResult == IF htEvent = "move" THEN hoveredHitIdx ELSE clicked

HitIndices == 0..(Len(hits) - 1)

\* C8 (rect hit-testing): after a move over the bar chart or a click on the
\* bar chart or the heatmap, the result is the lowest index whose rectangle
\* contains the pointer, and it is -1 (no onClick call) when the pointer is
\* outside every rectangle; the centre of a rectangle k with w > 0 and
\* h > 0 that no earlier rectangle contains gives k.
C8_FirstMatchWins ==
    htEvent \in {"move", "click"} =>
        /\ \A k \in HitIndices :
               (PointerIn(k) /\ \A j \in 0..(k - 1) : ~PointerIn(j))
                   => HitResult = k
        /\ (\A k \in HitIndices : ~PointerIn(k)) => HitResult = -1
        /\ \A k \in HitIndices :
               (/\ hits[k + 1].w > 0
                /\ hits[k + 1].h > 0
                /\ PointerAtCentre(k)
                /\ \A j \in 0..(k - 1) : ~PointerIn(j))
                   => HitResult = k

\* A click on the edge that two bars share: both contain the pointer, the
\* first one is reported.
C8_Witness ==
    /\ htEvent = "click"
    /\ Len(hits) = 2
    /\ hits[1] # hits[2]
    /\ hits[1].w > 0 /\ hits[2].w > 0
    /\ pointer.mx = hits[1].x + hits[1].w
    /\ pointer.mx = hits[2].x
    /\ PointerIn(0) /\ PointerIn(1)
    /\ clicked = 0

-----------------------------------------------------------------------------
(* Sector hit-testing: hitTest of the donut chart and the slice angles     *)
(* drawPrimaryRing caches for it.  Angles are in degrees (Math.PI is 180)  *)
(* and exact.  The pointer is given by what hitTest computes of it first:  *)
(* dist = sqrt(dx * dx + dy * dy) and atan2(dy, dx), which lies in         *)
(* (-180, 180].                                                            *)

RECURSIVE sumValues(_)
sumValues(d) == IF d = <<>> THEN 0 ELSE d[1] + sumValues(Tail(d))

\* for (const d of data) { sweep = (d.value / total) * 2 PI;
\*   sliceAngles.push({ start: angle, end: angle + sweep }); angle += sweep }
RECURSIVE sliceLoop(_, _, _)
sliceLoop(d, total, angle) ==
    IF d = <<>> THEN <<>>
    ELSE LET sweep == Mul(Div(Num(d[1]), Num(total)), Num(360))
         IN  <<[start |-> angle, end |-> Add(angle, sweep)]>>
                 \o sliceLoop(Tail(d), total, Add(angle, sweep))

\* The slice angles after drawPrimaryRing: it returns before it touches the
\* cache (old) when there is no data or the total is not positive.
drawPrimaryRing(d, old) ==
    IF Len(d) = 0 \/ sumValues(d) <= 0 THEN old
    ELSE sliceLoop(d, sumValues(d), Num(-90))

\* A test with closed angular ranges.
RECURSIVE scanSlices_Closed(_, _, _)
scanSlices_Closed(sa, angle, i) ==
    IF i >= Len(sa) THEN -1
    ELSE IF Gt(Num(angle), sa[i + 1].start) /\ Le(Num(angle), sa[i + 1].end)
         THEN i
    ELSE scanSlices_Closed(sa, angle, i + 1)

\* for (let i = 0; ...) if (angle >= start && angle < end) return i;
\* return -1
RECURSIVE scanSlices(_, _, _)
scanSlices(sa, angle, i) ==
    IF i >= Len(sa) THEN -1
    ELSE IF Ge(Num(angle), sa[i + 1].start) /\ Lt(Num(angle), sa[i + 1].end)
         THEN i
    ELSE scanSlices(sa, angle, i + 1)

\* hitTest(x, y), from dist and atan2(dy, dx) on.
hitTest(sa, rg, dist, atan2) ==
    IF dist < rg.innerR \/ dist > rg.outerR + 8 * rg.dpr THEN -1
    ELSE LET angle == IF atan2 < -90 THEN atan2 + 360 ELSE atan2
         IN  scanSlices(sa, angle, 0)

DataLists == UNION {[1..n -> 0..MaxValue] : n \in 0..MaxSlices}

\* A pie at dpr 1 and a donut at dpr 2.
Rings ==
    {[innerR |-> 0, outerR |-> 10, dpr |-> 1],
     [innerR |-> 4, outerR |-> 10, dpr |-> 2]}

Dists == {0, 3, 4, 10, 18, 19, 26, 27}

Atan2Angles == {30 * k : k \in -5..6}

\* Pointers across the ring along the x axis, and around it at distance 10.
DonutPointers ==
    {[dist |-> d, angle |-> 0] : d \in Dists}
        \cup {[dist |-> 10, angle |-> a] : a \in Atan2Angles}

\* The chart after its first draw; nothing is cached when nothing is drawn.
DonutInit ==
    /\ data \in DataLists
    /\ sliceAngles = drawPrimaryRing(data, <<>>)
    /\ IF sliceAngles = <<>>
       THEN \E d \in {1, 2} : ring = [innerR |-> 0, outerR |-> 0, dpr |-> d]
       ELSE ring \in Rings
    /\ dnPointer = [dist |-> 27, angle |-> 0]
    /\ hoveredIdx = -1
    /\ dnClicked = -1
    /\ dnEvent = "none"

\* The mousemove listener of the donut chart; the redraw it asks for on a
\* change computes the same slice angles again.
donutMouseMove ==
    /\ sliceAngles' = drawPrimaryRing(data, sliceAngles)
    /\ \E p \in DonutPointers :
           /\ dnPointer' = p
           /\ hoveredIdx' = hitTest(sliceAngles, ring, p.dist, p.angle)
    /\ dnClicked' = -1
    /\ dnEvent' = "move"
    /\ UNCHANGED <<data, ring>>
    /\ UNCHANGED otherThanDonut

donutMouseLeave ==
    /\ hoveredIdx' = -1
    /\ sliceAngles' = drawPrimaryRing(data, sliceAngles)
    /\ dnClicked' = -1
    /\ dnEvent' = "leave"
    /\ UNCHANGED <<data, ring, dnPointer>>
    /\ UNCHANGED otherThanDonut

\* The click listener: if (idx >= 0) onClick(data[idx], idx)
donutClick ==
    /\ \E p \in DonutPointers :
           /\ dnPointer' = p
           /\ dnClicked' = hitTest(sliceAngles, ring, p.dist, p.angle)
    /\ dnEvent' = "click"
    /\ UNCHANGED <<data, ring, sliceAngles, hoveredIdx>>
    /\ UNCHANGED otherThanDonut

DonutNext == donutMouseMove \/ donutMouseLeave \/ donutClick

InitDonut ==
    DonutInit /\ TreemapIdle /\ ThemeIdle /\ OptionsIdle /\ RectHitIdle
        /\ RadarIdle /\ RestIdle

SpecDonut == InitDonut /\ [][DonutNext]_vars

-----------------------------------------------------------------------------
(* Claims about sector hit-testing.                                        *)

\* What the last event found.
SectorResult == IF dnEvent = "move" THEN hoveredIdx ELSE dnClicked

\* The pointer angle normalised into [-90, 270).
PointerAngle ==
    IF dnPointer.angle < -90 THEN dnPointer.angle + 360 ELSE dnPointer.angle

RadiallyOutside ==
    dnPointer.dist < ring.innerR \/ dnPointer.dist > ring.outerR + 8 * ring.dpr

\* The sum of the values of slices 0 .. i - 1.
ValuesBefore(i) == sumValues(SubSeq(data, 1, i))

\* Slice i (from 0) covers [start_i, end_i), start_i = -90 + 360 * (values
\* before i) / total: the pointer angle is in that range.
InSector(i) ==
    /\ 360 * ValuesBefore(i) <= (PointerAngle + 90) * sumValues(data)
    /\ (PointerAngle + 90) * sumValues(data) < 360 * ValuesBefore(i + 1)

AllValuesPositive == \A i \in 1..Len(data) : data[i] > 0

\* C9 (sector hit-testing): hitTest returns -1 when the radial distance is
\* outside [innerR, outerR + 8 * dpr]; otherwise, when all slices have
\* positive values, exactly one slice has the normalised pointer angle in
\* its half-open range [start, end) and hitTest returns its index, so that
\* with three equal slices the boundaries 30 and 150 degrees give slices 1
\* and 2.
C9_SectorHit ==
    (dnEvent \in {"move", "click"}) =>
        /\ RadiallyOutside => SectorResult = -1
        /\ (~RadiallyOutside /\ Len(data) > 0 /\ AllValuesPositive) =>
               /\ SectorResult \in 0..(Len(data) - 1)
               /\ \A i \in 0..(Len(data) - 1) :
                      InSector(i) <=> i = SectorResult
               /\ (Len(data) = 3 /\ data[1] = data[2] /\ data[2] = data[3]) =>
                      /\ PointerAngle = 30 => SectorResult = 1
                      /\ PointerAngle = 150 => SectorResult = 2

\* A click exactly on the boundary at 30 degrees of three equal slices is
\* given to slice 1.
C9_Witness ==
    /\ dnEvent = "click"
    /\ Len(data) = 3 /\ data[1] = data[2] /\ data[2] = data[3] /\ data[1] > 0
    /\ ~RadiallyOutside
    /\ dnPointer.angle = 30
    /\ dnClicked = 1

-----------------------------------------------------------------------------
(* Proximity hit-testing: hitTestSeries of the radar chart.  The axis      *)
(* counts are those whose directions have exact cosines and sines (1, 2    *)
(* and 4 axes: -90, 0, 90 and 180 degrees).  Distances are kept squared:   *)
(* dist < hitR and dist < bestDist compare the same way squared, both      *)
(* sides being >= 0.                                                       *)

\* angleFor(axisIdx, total) = -PI / 2 + (2 PI / total) * axisIdx, in degrees
angleFor(axisIdx, total) == -90 + (360 \div total) * axisIdx

cosDeg(a) ==
    CASE a = 0 -> 1 [] a = 180 -> -1 [] a \in {-90, 90} -> 0

sinDeg(a) ==
    CASE a = 90 -> 1 [] a = -90 -> -1 [] a \in {0, 180} -> 0

\* Math.max over the values seen, from 0
maxOf(vals) ==
    IF \A v \in vals : v <= 0 THEN 0
    ELSE CHOOSE m \in vals : \A v \in vals : v <= m

\* getGlobalMax(): the largest value of any series on any axis, 1 when that
\* is 0 (m || 1)
getGlobalMax(ax, se) ==
    LET m == maxOf({se[si][ai] : si \in 1..Len(se), ai \in 1..Len(ax)})
    IN  IF m = 0 THEN 1 ELSE m

\* The vertex of series si on axis ai (both from 0): [px, py]
vertexOf(ax, se, g, globalMax, si, ai) ==
    LET axisMax == IF ax[ai + 1].hasMax THEN ax[ai + 1].max ELSE globalMax
        val == se[si + 1][ai + 1]
        r == IF axisMax > 0
             THEN Mul(Div(Num(val), Num(axisMax)), Num(g.radius))
             ELSE Num(0)
        angle == angleFor(ai, Len(ax))
    IN  [px |-> Add(Num(g.cx), Mul(Num(cosDeg(angle)), r)),
         py |-> Add(Num(g.cy), Mul(Num(sinDeg(angle)), r))]

\* dist * dist for dx = mx - px, dy = my - py
distSqTo(v, mx, my) ==
    LET dx == Sub(Num(mx), v.px)
        dy == Sub(Num(my), v.py)
    IN  Add(Mul(dx, dx), Mul(dy, dy))

\* A test that takes every vertex within the tolerance, nearer or not.
isCloserHit_AnyWithin(distSq, hitR, bestDistSq) ==
    Lt(distSq, Num(hitR * hitR))

\* if (dist < hitR && dist < bestDist)
isCloserHit(distSq, hitR, bestDistSq) ==
    Lt(distSq, Num(hitR * hitR)) /\ Lt(distSq, bestDistSq)

\* The two nested loops from pair number k on (k = si * n + ai), best being
\* [distSq, si, ai] so far.
RECURSIVE scanVertices(_, _, _, _, _, _, _, _)
scanVertices(ax, se, g, globalMax, mx, my, k, best) ==
    IF k >= Len(se) * Len(ax) THEN [si |-> best.si, ai |-> best.ai]
    ELSE LET si == k \div Len(ax)
             ai == k % Len(ax)
             distSq ==
                 distSqTo(vertexOf(ax, se, g, globalMax, si, ai), mx, my)
         IN  IF isCloserHit(distSq, 12 * g.dpr, best.distSq)
             THEN scanVertices(ax, se, g, globalMax, mx, my, k + 1,
                      [distSq |-> distSq, si |-> si, ai |-> ai])
             ELSE scanVertices(ax, se, g, globalMax, mx, my, k + 1, best)

hitTestSeries(ax, se, g, mx, my) ==
    IF Len(ax) = 0 \/ Len(se) = 0 THEN [si |-> -1, ai |-> -1]
    ELSE scanVertices(ax, se, g, getGlobalMax(ax, se), mx, my, 0,
             [distSq |-> Infinity, si |-> -1, ai |-> -1])

-----------------------------------------------------------------------------
(* The radar chart as a state machine: axes, series and cached geometry    *)
(* are drawn, then mouse events arrive.                                    *)

AxisCounts == {0, 2, 4}

Axis(hasMax, max) == [hasMax |-> hasMax, max |-> max]

\* Axes without max (the global maximum counts), and a mix with maxima 2, 0
\* and 4.
AxisProfiles ==
    {[i \in 1..4 |-> Axis(FALSE, 0)],
     <<Axis(FALSE, 0), Axis(TRUE, 2), Axis(TRUE, 0), Axis(TRUE, 4)>>}

\* The values of a series by axis.
SeriesProfiles == {<<2, 2, 2, 2>>, <<1, 2, 0, 1>>}

SeriesLists(n) ==
    UNION {[1..k -> {SubSeq(sp, 1, n) : sp \in SeriesProfiles}] :
               k \in 0..MaxSeries}

\* cx, cy and radius as draw caches them.
DrawnGeometry(dpr) == [cx |-> 24, cy |-> 24, radius |-> 24, dpr |-> dpr]

\* Before the first draw that gets past its early return.
NoGeometry(dpr) == [cx |-> 0, cy |-> 0, radius |-> 0, dpr |-> dpr]

Pointer(mx, my) == [mx |-> mx, my |-> my]

\* The centre, points on and between the axes at distances 6, 12 and 18
\* from vertices, the canvas origin and a point 12 from it, and a point
\* far from everything.
RadarPointers ==
    {Pointer(24, 24), Pointer(36, 24), Pointer(42, 24), Pointer(24, 6),
     Pointer(30, 18), Pointer(0, 0), Pointer(12, 0), Pointer(96, 96)}

\* draw returns before it caches the geometry when there are fewer than 3
\* axes or no series; the geometry is then the one of an earlier draw, or
\* none.
RadarInit ==
    /\ \E n \in AxisCounts :
           /\ axes \in {SubSeq(ap, 1, n) : ap \in AxisProfiles}
           /\ series \in SeriesLists(n)
    /\ IF Len(axes) < 3 \/ Len(series) = 0
       THEN geom \in {NoGeometry(1), DrawnGeometry(2)}
       ELSE geom \in {DrawnGeometry(1), DrawnGeometry(2)}
    /\ rdPointer = Pointer(96, 96)
    /\ hoveredSeriesIdx = -1
    /\ hoveredAxisIdx = -1
    /\ rdClicked = [si |-> -1, ai |-> -1]
    /\ rdEvent = "none"

\* The mousemove listener; the redraw it asks for on a change caches the
\* same geometry again.
radarMouseMove ==
    /\ \E p \in RadarPointers :
           /\ rdPointer' = p
           /\ LET hit == hitTestSeries(axes, series, geom, p.mx, p.my)
              IN  /\ hoveredSeriesIdx' = hit.si
                  /\ hoveredAxisIdx' = hit.ai
    /\ rdClicked' = [si |-> -1, ai |-> -1]
    /\ rdEvent' = "move"
    /\ UNCHANGED <<axes, series, geom>>
    /\ UNCHANGED otherThanRadar

radarMouseLeave ==
    /\ hoveredSeriesIdx' = -1
    /\ hoveredAxisIdx' = -1
    /\ rdClicked' = [si |-> -1, ai |-> -1]
    /\ rdEvent' = "leave"
    /\ UNCHANGED <<axes, series, geom, rdPointer>>
    /\ UNCHANGED otherThanRadar

\* The click listener: if (si >= 0 && ai >= 0) onClick(series[si], key, val)
radarClick ==
    /\ \E p \in RadarPointers :
           /\ rdPointer' = p
           /\ LET hit == hitTestSeries(axes, series, geom, p.mx, p.my)
              IN  rdClicked' = IF hit.si >= 0 /\ hit.ai >= 0
                               THEN hit ELSE [si |-> -1, ai |-> -1]
    /\ rdEvent' = "click"
    /\ UNCHANGED <<axes, series, geom, hoveredSeriesIdx, hoveredAxisIdx>>
    /\ UNCHANGED otherThanRadar

RadarNext == radarMouseMove \/ radarMouseLeave \/ radarClick

InitRadar ==
    RadarInit /\ TreemapIdle /\ ThemeIdle /\ OptionsIdle /\ RectHitIdle
        /\ DonutIdle /\ RestIdle

SpecRadar == InitRadar /\ [][RadarNext]_vars

-----------------------------------------------------------------------------
(* Claims about proximity hit-testing.                                     *)

\* What the last event found.
ProximityResult ==
    IF rdEvent = "move"
    THEN [si |-> hoveredSeriesIdx, ai |-> hoveredAxisIdx]
    ELSE rdClicked

\* All (series, axis) pairs, indices from 0.
VertexPairs ==
    {[si |-> i, ai |-> j] :
         i \in 0..(Len(series) - 1), j \in 0..(Len(axes) - 1)}

\* The squared distance of the pointer to the vertex of pair v.
PointerDistSq(v) ==
    distSqTo(vertexOf(axes, series, geom, getGlobalMax(axes, series),
                      v.si, v.ai),
             rdPointer.mx, rdPointer.my)

\* The distance is below 12 * dpr.
WithinTolerance(v) ==
    Lt(PointerDistSq(v), Num((12 * geom.dpr) * (12 * geom.dpr)))

\* C10 (proximity hit-testing): hitTestSeries returns (-1, -1) when there
\* are no axes or no series or when no vertex is within 12 * dpr of the
\* pointer; otherwise it returns a (series, axis) pair whose vertex is
\* within that tolerance and has the minimum distance to the pointer among
\* all vertices.
C10_NearestVertex ==
    rdEvent \in {"move", "click"} =>
        IF \E v \in VertexPairs : WithinTolerance(v)
        THEN /\ ProximityResult \in VertexPairs
             /\ WithinTolerance(ProximityResult)
             /\ \A v \in VertexPairs :
                    ~Lt(PointerDistSq(v), PointerDistSq(ProximityResult))
        ELSE ProximityResult = [si |-> -1, ai |-> -1]

\* Two vertices are within the tolerance of a click, and the one scanned
\* later is the nearer one and is returned.
C10_Witness ==
    /\ rdEvent = "click"
    /\ rdClicked \in VertexPairs
    /\ \E v \in VertexPairs :
           /\ WithinTolerance(v)
           /\ v.si < rdClicked.si
           /\ Lt(PointerDistSq(rdClicked), PointerDistSq(v))

(* Axis-index hit-testing of the area chart.  Coordinates are exact       *)
(* rationals; the pointer x arrives in CSS pixels and is scaled by dpr.    *)

\* const mLeft_ = showYAxis ? 50 * dpr : 16 * dpr
mLeft(cv) == IF cv.showYAxis THEN Num(50 * cv.dpr) ELSE Num(16 * cv.dpr)

\* const plotW_ = canvas.width - mLeft_ - mRight_, with mRight_ = 16 * dpr
plotW(cv) == Sub(Sub(Num(cv.width), mLeft(cv)), Num(16 * cv.dpr))

\* const toX_ = (i) => mLeft_ + (i / Math.max(n - 1, 1)) * plotW_
\* (i counts from 0 as in the code)
toX(n, cv, i) ==
    Add(mLeft(cv),
        Mul(Div(Num(i), MathMax(Num(n - 1), Num(1))), plotW(cv)))

\* const slotW = n > 1 ? plotW_ / (n - 1) : plotW_
slotW(n, cv) == IF n > 1 THEN Div(plotW(cv), Num(n - 1)) ELSE plotW(cv)

\* const dist = Math.abs(mx * dpr - toX_(i))
distTo(n, cv, mx, i) ==
    LET d == Sub(Num(mx * cv.dpr), toX(n, cv, i))
    IN  IF Lt(d, Num(0)) THEN Neg(d) ELSE d

\* The loop of findHoveredIndex from index i on:
\*   if (dist < closestDist && dist < slotW * 0.6) { closestDist = dist;
\*                                                   closestIdx = i; }
RECURSIVE scanLabels(_, _, _, _, _, _)
scanLabels(n, cv, mx, i, closestIdx, closestDist) ==
    IF i >= n THEN closestIdx
    ELSE LET dist == distTo(n, cv, mx, i)
         IN  IF Lt(dist, closestDist)
                    /\ Lt(dist, Mul(slotW(n, cv), <<3, 5>>))
             THEN scanLabels(n, cv, mx, i + 1, i, dist)
             ELSE scanLabels(n, cv, mx, i + 1, closestIdx, closestDist)

\* findHoveredIndex(mx) over n x labels; indices from 0, -1 for no match.
findHoveredIndex(n, cv, mx) ==
    IF n = 0 THEN -1 ELSE scanLabels(n, cv, mx, 0, -1, Infinity)

\* Widths of the canvas element in CSS pixels; canvas.width is the CSS width
\* times dpr.
AreaCssWidths == {62, 152}

AreaCanvases ==
    {[width |-> w * d, dpr |-> d, showYAxis |-> y, interactive |-> a] :
        w \in AreaCssWidths, d \in {1, 2}, y \in BOOLEAN, a \in BOOLEAN}

\* Pointer positions across the canvas, in CSS pixels.
AreaPointers == {0, 8, 16, 24, 31, 46, 50, 61, 93, 101, 136, 151}

AreaHitInit ==
    /\ areaN \in 0..MaxPoints
    /\ areaCanvas \in AreaCanvases
    /\ areaMx = 0
    /\ areaHoveredIdx = -1
    /\ areaClicked = -1
    /\ areaEvent = "none"

\* onMouseMove: if (!interactive) return; idx = findHoveredIndex(mx);
\* if (idx !== hoveredIdx) { hoveredIdx = idx; ... onHover(...) }
areaMouseMove ==
    /\ areaCanvas.interactive
    /\ \E mx \in AreaPointers :
           /\ areaMx' = mx
           /\ areaHoveredIdx' = findHoveredIndex(areaN, areaCanvas, mx)
    /\ areaClicked' = -1
    /\ areaEvent' = "move"
    /\ UNCHANGED <<areaN, areaCanvas>>
    /\ UNCHANGED otherThanAreaHit

\* onMouseLeave: hoveredIdx = -1; onHover(null, -1)
areaMouseLeave ==
    /\ areaHoveredIdx' = -1
    /\ areaClicked' = -1
    /\ areaEvent' = "leave"
    /\ UNCHANGED <<areaN, areaCanvas, areaMx>>
    /\ UNCHANGED otherThanAreaHit

\* onCanvasClick: idx = findHoveredIndex(mx); if (idx >= 0) onClick(..., idx)
areaCanvasClick ==
    /\ \E mx \in AreaPointers :
           /\ areaMx' = mx
           /\ areaClicked' = findHoveredIndex(areaN, areaCanvas, mx)
    /\ areaEvent' = "click"
    /\ UNCHANGED <<areaN, areaCanvas, areaHoveredIdx>>
    /\ UNCHANGED otherThanAreaHit

AreaHitNext == areaMouseMove \/ areaMouseLeave \/ areaCanvasClick

InitAreaHit ==
    AreaHitInit /\ TreemapIdle /\ ThemeIdle /\ OptionsIdle /\ RectHitIdle
        /\ DonutIdle /\ RadarIdle /\ DonutDataIdle /\ ProgressIdle
        /\ SchedulerIdle
        /\ LateIdle

SpecAreaHit == InitAreaHit /\ [][AreaHitNext]_vars

-----------------------------------------------------------------------------
(* Claims about axis-index hit-testing.                                    *)

\* What the last pointer event found.
AxisResult == IF areaEvent = "move" THEN areaHoveredIdx ELSE areaClicked

\* Half a slot width.
HalfSlot == Div(slotW(areaN, areaCanvas), Num(2))

AxisDist(i) == distTo(areaN, areaCanvas, areaMx, i)

\* C11: after a pointer event over n >= 1 points, the index found is a nearest
\* one whenever some point lies within less than half a slot of the pointer,
\* and is -1 whenever every point lies farther than half a slot from it.
C11_HalfSlotAcceptance ==
    (areaEvent \in {"move", "click"} /\ areaN >= 1) =>
        /\ (\E i \in 0..(areaN - 1) : Lt(AxisDist(i), HalfSlot)) =>
               /\ AxisResult \in 0..(areaN - 1)
               /\ \A j \in 0..(areaN - 1) :
                      Le(AxisDist(AxisResult), AxisDist(j))
        /\ (\A i \in 0..(areaN - 1) : Gt(AxisDist(i), HalfSlot)) =>
               AxisResult = -1

(* The donut chart's data sets: setData, setStackedData, the draws they   *)
(* ask for, and the slice the mouse listeners hand to onHover and onClick. *)
(* The chart is created without animation, so every draw is drawStatic.    *)

\* The values of a list of slices.
valuesOf(sl) == [i \in 1..Len(sl) |-> sl[i].value]

\* function isStacked(): boolean { return stackedData.length > 0; }
isStacked(st) == Len(st) > 0

\* outerR = Math.max(diameter / 2, 10) in a canvas whose diameter is 20,
\* at dpr 1.
DonutOuterR == 10

\* The geometry drawPrimaryRing caches, with innerRadius 0.4; it leaves the
\* old one when it returns early.
primaryGeometry(d, old) ==
    IF Len(d) = 0 \/ sumValues(valuesOf(d)) <= 0 THEN old
    ELSE [innerR |-> (DonutOuterR * 4) \div 10, outerR |-> DonutOuterR,
          dpr |-> 1]

\* The slice angles after drawStackedRings: only the outermost ring rings[0]
\* stores hit regions, and it is skipped when its total is not positive.
stackedSliceAngles(st, old) ==
    IF Len(st) = 0 THEN old
    ELSE IF sumValues(valuesOf(st[1])) <= 0 THEN old
    ELSE sliceLoop(valuesOf(st[1]), sumValues(valuesOf(st[1])), Num(-90))

\* The geometry drawStackedRings caches: innerR = maxR * 0.3
stackedGeometry(st, old) ==
    IF Len(st) = 0 THEN old
    ELSE [innerR |-> (DonutOuterR * 3) \div 10, outerR |-> DonutOuterR,
          dpr |-> 1]

\* draw(elapsed): the slice angles and the geometry it leaves.
drawSliceAngles(d, st, old) ==
    IF isStacked(st) THEN stackedSliceAngles(st, old)
    ELSE drawPrimaryRing(valuesOf(d), old)

drawGeometry(d, st, old) ==
    IF isStacked(st) THEN stackedGeometry(st, old)
    ELSE primaryGeometry(d, old)

\* data[idx] as the listeners read it: undefined outside the list.
itemAt(d, idx) == IF idx + 1 \in DOMAIN d THEN <<d[idx + 1]>> ELSE <<>>

Slice(l, v) == [label |-> l, value |-> v]

\* Data sets handed to setData: empty, one to three slices, a reordering, and
\* one whose total is zero.
SliceLists ==
    {<<>>,
     <<Slice("a", 1)>>,
     <<Slice("a", 1), Slice("b", 2)>>,
     <<Slice("b", 2), Slice("a", 1)>>,
     <<Slice("a", 1), Slice("b", 2), Slice("c", 1)>>,
     <<Slice("z", 0)>>}

\* Ring lists handed to setStackedData.
StackedLists ==
    {<<>>,
     <<<<Slice("p", 1), Slice("q", 1)>>>>,
     <<<<Slice("q", 2)>>, <<Slice("a", 1), Slice("b", 2)>>>>}

DonutDataInit ==
    /\ ddData \in SliceLists
    /\ ddStacked \in StackedLists
    /\ ddSliceAngles = drawSliceAngles(ddData, ddStacked, <<>>)
    /\ ddRing = drawGeometry(ddData, ddStacked,
                             [innerR |-> 0, outerR |-> 0, dpr |-> 1])
    /\ ddHoveredIdx = -1
    /\ ddCall = [fn |-> "none", idx |-> -1, item |-> <<>>]
    /\ ddPointer = [dist |-> 27, angle |-> 0]
    /\ ddEvent = "none"

\* setData(d) { data = d; stackedData = []; drawStatic(); }
ddSetData ==
    /\ \E d \in SliceLists :
           /\ ddData' = d
           /\ ddSliceAngles' = drawSliceAngles(d, <<>>, ddSliceAngles)
           /\ ddRing' = drawGeometry(d, <<>>, ddRing)
    /\ ddStacked' = <<>>
    /\ ddCall' = [fn |-> "none", idx |-> -1, item |-> <<>>]
    /\ ddEvent' = "setData"
    /\ UNCHANGED <<ddHoveredIdx, ddPointer>>
    /\ UNCHANGED otherThanDonutData

\* setStackedData(d) { stackedData = d; drawStatic(); }
ddSetStackedData ==
    /\ \E st \in StackedLists :
           /\ ddStacked' = st
           /\ ddSliceAngles' = drawSliceAngles(ddData, st, ddSliceAngles)
           /\ ddRing' = drawGeometry(ddData, st, ddRing)
    /\ ddCall' = [fn |-> "none", idx |-> -1, item |-> <<>>]
    /\ ddEvent' = "setStackedData"
    /\ UNCHANGED <<ddData, ddHoveredIdx, ddPointer>>
    /\ UNCHANGED otherThanDonutData

\* redraw: () => drawStatic()
ddRedraw ==
    /\ ddSliceAngles' = drawSliceAngles(ddData, ddStacked, ddSliceAngles)
    /\ ddRing' = drawGeometry(ddData, ddStacked, ddRing)
    /\ ddCall' = [fn |-> "none", idx |-> -1, item |-> <<>>]
    /\ ddEvent' = "redraw"
    /\ UNCHANGED <<ddData, ddStacked, ddHoveredIdx, ddPointer>>
    /\ UNCHANGED otherThanDonutData

\* The mousemove listener: on a change of index it redraws and calls
\* onHover(data[idx], idx), or onHover(null, -1).
ddMouseMove ==
    \E p \in DonutPointers :
        LET idx == hitTest(ddSliceAngles, ddRing, p.dist, p.angle)
        IN  /\ ddPointer' = p
            /\ ddEvent' = "move"
            /\ IF idx # ddHoveredIdx
               THEN /\ ddHoveredIdx' = idx
                    /\ ddSliceAngles' =
                           drawSliceAngles(ddData, ddStacked, ddSliceAngles)
                    /\ ddRing' = drawGeometry(ddData, ddStacked, ddRing)
                    /\ ddCall' = [fn |-> "onHover", idx |-> idx,
                                  item |-> IF idx >= 0
                                           THEN itemAt(ddData, idx) ELSE <<>>]
               ELSE /\ ddCall' = [fn |-> "none", idx |-> -1, item |-> <<>>]
                    /\ UNCHANGED <<ddHoveredIdx, ddSliceAngles, ddRing>>
            /\ UNCHANGED <<ddData, ddStacked>>
            /\ UNCHANGED otherThanDonutData

\* The mouseleave listener.
ddMouseLeave ==
    /\ ddEvent' = "leave"
    /\ IF ddHoveredIdx # -1
       THEN /\ ddHoveredIdx' = -1
            /\ ddCall' = [fn |-> "onHover", idx |-> -1, item |-> <<>>]
            /\ ddSliceAngles' =
                   drawSliceAngles(ddData, ddStacked, ddSliceAngles)
            /\ ddRing' = drawGeometry(ddData, ddStacked, ddRing)
       ELSE /\ ddCall' = [fn |-> "none", idx |-> -1, item |-> <<>>]
            /\ UNCHANGED <<ddHoveredIdx, ddSliceAngles, ddRing>>
    /\ UNCHANGED <<ddData, ddStacked, ddPointer>>
    /\ UNCHANGED otherThanDonutData

\* The click listener: if (idx >= 0) onClick(data[idx], idx)
ddClick ==
    \E p \in DonutPointers :
        LET idx == hitTest(ddSliceAngles, ddRing, p.dist, p.angle)
        IN  /\ ddPointer' = p
            /\ ddEvent' = "click"
            /\ ddCall' = IF idx >= 0
                         THEN [fn |-> "onClick", idx |-> idx,
                               item |-> itemAt(ddData, idx)]
                         ELSE [fn |-> "none", idx |-> -1, item |-> <<>>]
            /\ UNCHANGED <<ddData, ddStacked, ddSliceAngles, ddRing,
                           ddHoveredIdx>>
            /\ UNCHANGED otherThanDonutData

DonutDataNext ==
    \/ ddSetData
    \/ ddSetStackedData
    \/ ddRedraw
    \/ ddMouseMove
    \/ ddMouseLeave
    \/ ddClick

InitDonutData ==
    DonutDataInit /\ TreemapIdle /\ ThemeIdle /\ OptionsIdle /\ RectHitIdle
        /\ DonutIdle /\ RadarIdle /\ AreaHitIdle /\ ProgressIdle
        /\ SchedulerIdle
        /\ LateIdle

SpecDonutData == InitDonutData /\ [][DonutDataNext]_vars

-----------------------------------------------------------------------------
(* Claims about the items handed to callbacks and about hit-test records.  *)

\* The slices the chart renders: the outermost ring in stacked mode, data
\* otherwise.
RenderedSlices == IF isStacked(ddStacked) THEN ddStacked[1] ELSE ddData

\* C12: whenever onClick or onHover is called with an index i >= 0, the item
\* passed is defined and is the slice of the data set being rendered that is
\* drawn at index i.
C12_CallbackItem ==
    (ddCall.fn \in {"onHover", "onClick"} /\ ddCall.idx >= 0) =>
        /\ ddCall.idx + 1 \in DOMAIN RenderedSlices
        /\ ddCall.item = <<RenderedSlices[ddCall.idx + 1]>>

\* The slices a draw of the current data puts on the canvas: none when the
\* total is not positive.
DrawnSlices ==
    IF sumValues(valuesOf(RenderedSlices)) <= 0 THEN <<>> ELSE RenderedSlices

\* C13: after any sequence of setData, setStackedData, redraw and pointer
\* events, sliceAngles holds exactly one record per slice of the current
\* data, so it is empty after setData([]).
C13_RecordsFollowData ==
    /\ Len(ddSliceAngles) = Len(DrawnSlices)
    /\ (DrawnSlices # <<>>) =>
           ddSliceAngles = sliceLoop(valuesOf(DrawnSlices),
                                     sumValues(valuesOf(DrawnSlices)),
                                     Num(-90))

(* Easing functions and per-item animation progress.  Times are in whole *)
(* milliseconds; progress values are exact rationals, except for the       *)
(* spring easing, whose values are tabulated.                              *)

Pow3(x) == Mul(x, Mul(x, x))

\* spring: (t) => 1 - Math.exp(-6 * t) * Math.cos(6.5 * t), to six decimals
\* at the quarters of [0, 1]; an argument in between takes the value of the
\* quarter below it.  exp(0) * cos(0) is exactly 1, so spring(0) is exactly 0.
springEasing(t) ==
    LET q == IF Lt(t, Num(0)) THEN 0
             ELSE IF Gt(t, Num(1)) THEN 4
             ELSE (4 * t[1]) \div t[2]
    IN  CASE q = 0 -> Num(0)
          [] q = 1 -> Norm(1012089, 1000000)
          [] q = 2 -> Norm(1049495, 1000000)
          [] q = 3 -> Norm(998202, 1000000)
          [] OTHER -> Norm(997579, 1000000)

\* const EASINGS = { linear, easeOut, easeInOut, spring }
EASINGS(name, t) ==
    CASE name = "linear" -> t
      [] name = "easeOut" -> Sub(Num(1), Pow3(Sub(Num(1), t)))
      [] name = "easeInOut" ->
             IF Lt(t, <<1, 2>>) THEN Mul(Num(4), Pow3(t))
             ELSE Sub(Num(1),
                      Div(Pow3(Add(Mul(Num(-2), t), Num(2))), Num(2)))
      [] OTHER -> springEasing(t)

EasingNames == {"linear", "easeOut", "easeInOut", "spring"}

\* resolveAnim(raw): raw is "undefined" or a configuration that names every
\* field.
\*   if (!raw) return { enabled: false, duration: 0, easing: EASINGS.linear,
\*                      delay: 0, style: 'none' };
\*   enabled: (cfg.style ?? 'grow') !== 'none'
\*   easing: EASINGS[cfg.easing ?? 'easeOut'] ?? EASINGS.easeOut
\* An easing of "undefined" stands for a configuration without the field.
resolveAnim(raw) ==
    IF raw.given = FALSE
    THEN [enabled |-> FALSE, duration |-> 0, easing |-> "linear",
          delay |-> 0, style |-> "none"]
    ELSE [enabled |-> raw.style # "none", duration |-> raw.duration,
          easing |-> IF raw.easing \in EasingNames THEN raw.easing
                     ELSE "easeOut",
          delay |-> raw.delay, style |-> raw.style]

\* Durations and per-item delays in milliseconds.
Durations == {2, 4}

Delays == {0, 1, 3}

\* The animation option: absent, or a configuration.
AnimOptions ==
    {[given |-> FALSE, style |-> "none", duration |-> 0, easing |-> "linear",
      delay |-> 0]}
        \cup [given : {TRUE}, style : {"grow", "none"}, duration : Durations,
              easing : EasingNames, delay : Delays]

\* A progress function that ignores the per-item delay.
barProgress_NoDelay(anim, catIdx, elapsed) ==
    IF ~anim.enabled \/ elapsed = Infinity THEN Num(1)
    ELSE LET barElapsed == MathMax(Num(0), elapsed)
             raw == MathMin(Num(1), Div(barElapsed, Num(anim.duration)))
         IN  EASINGS(anim.easing, raw)

\* function barProgress(catIdx, elapsed) of the bar chart
barProgress(anim, catIdx, elapsed) ==
    IF ~anim.enabled \/ elapsed = Infinity THEN Num(1)
    ELSE LET barElapsed ==
                 MathMax(Num(0), Sub(elapsed, Num(anim.delay * catIdx)))
             raw == MathMin(Num(1), Div(barElapsed, Num(anim.duration)))
         IN  EASINGS(anim.easing, raw)

\* function sliceProgress(sliceIdx, elapsed) of the donut chart
sliceProgress(anim, sliceIdx, elapsed) ==
    IF ~anim.enabled \/ elapsed = Infinity THEN Num(1)
    ELSE LET sliceElapsed ==
                 MathMax(Num(0), Sub(elapsed, Num(anim.delay * sliceIdx)))
             raw == MathMin(Num(1), Div(sliceElapsed, Num(anim.duration)))
         IN  EASINGS(anim.easing, raw)

\* function progress(elapsed) of the radar chart, which has no per-item delay
progress(anim, elapsed) ==
    IF ~anim.enabled \/ elapsed = Infinity THEN Num(1)
    ELSE LET raw == MathMin(Num(1), Div(elapsed, Num(anim.duration)))
         IN  EASINGS(anim.easing, raw)

\* Elapsed times handed to a draw: whole milliseconds, or the Infinity
\* sentinel of a static draw.
ElapsedTimes == {Num(t) : t \in 0..MaxElapsed} \cup {Infinity}

ProgressInit ==
    /\ pgWidget \in {"bar", "donut", "radar"}
    /\ \E raw \in AnimOptions :
           pgAnim = IF pgWidget = "radar"
                    THEN [resolveAnim(raw) EXCEPT !.delay = 0]
                    ELSE resolveAnim(raw)
    /\ pgN \in 1..MaxBars
    /\ pgIdx = 0
    /\ pgElapsed = Infinity
    /\ pgProgress = Num(1)
    /\ pgEvent = "none"

\* One evaluation of the widget's progress function inside a draw.
EvaluateProgress ==
    /\ \E i \in 0..(pgN - 1), el \in ElapsedTimes :
           /\ pgIdx' = i
           /\ pgElapsed' = el
           /\ pgProgress' =
                  CASE pgWidget = "bar" -> barProgress(pgAnim, i, el)
                    [] pgWidget = "donut" -> sliceProgress(pgAnim, i, el)
                    [] OTHER -> progress(pgAnim, el)
    /\ pgEvent' = "progress"
    /\ UNCHANGED <<pgWidget, pgAnim, pgN>>
    /\ UNCHANGED otherThanProgress

ProgressNext == EvaluateProgress

InitProgress ==
    ProgressInit /\ TreemapIdle /\ ThemeIdle /\ OptionsIdle /\ RectHitIdle
        /\ DonutIdle /\ RadarIdle /\ AreaHitIdle /\ DonutDataIdle
        /\ SchedulerIdle
        /\ LateIdle

SpecProgress == InitProgress /\ [][ProgressNext]_vars

-----------------------------------------------------------------------------
(* Claims about per-item progress.                                         *)

\* clamp(x, 0, 1)
Clamp01(x) == IF Lt(x, Num(0)) THEN Num(0)
              ELSE IF Gt(x, Num(1)) THEN Num(1) ELSE x

\* (elapsed - delayMs * i) / durationMs of the last evaluation
ProgressArgument ==
    Div(Sub(pgElapsed, Num(pgAnim.delay * pgIdx)), Num(pgAnim.duration))

\* The last evaluation was made by a running animation at a finite time.
EvaluatedWhileAnimating ==
    /\ pgEvent = "progress"
    /\ pgAnim.enabled
    /\ IsFinite(pgElapsed)

\* C14: with an enabled animation and a finite elapsed time, progress(i,
\* elapsed) is the easing of the clamped argument, it is exactly 0 while the
\* item's delay offset has not been reached, and progress(i, 0) is 0.
C14_PerItemProgress ==
    EvaluatedWhileAnimating =>
        /\ pgProgress = EASINGS(pgAnim.easing, Clamp01(ProgressArgument))
        /\ Le(pgElapsed, Num(pgAnim.delay * pgIdx)) => pgProgress = Num(0)
        /\ pgElapsed = Num(0) => pgProgress = Num(0)

\* A later item of a staggered run is evaluated before its delay offset while
\* the first item would already be under way, under the spring easing.
C14_Witness ==
    /\ EvaluatedWhileAnimating
    /\ pgWidget = "bar"
    /\ pgAnim.easing = "spring"
    /\ pgIdx = 2
    /\ pgAnim.delay = 3
    /\ pgElapsed = Num(4)
    /\ pgProgress = Num(0)

\* The total duration of the run: durationMs + delayMs * (n - 1)
TotalDuration == pgAnim.duration + pgAnim.delay * (pgN - 1)

\* C15: once the elapsed time has reached the total duration of the run,
\* every item's progress is exactly 1, under every easing.
C15_BoundaryIsOne ==
    (EvaluatedWhileAnimating /\ Ge(pgElapsed, Num(TotalDuration))) =>
        pgProgress = Num(1)

(* The animation scheduler: frame requests, the frame callbacks and the   *)
(* API calls that start, restart or end a run, for each kind of widget.    *)
(* The bar, donut and radar charts share one shape (startAnimation,        *)
(* drawStatic, tick); the heatmap, the gauge, and the area and depth       *)
(* charts each have their own.                                             *)

Staggered == {"bar", "donut"}

TickWidgets == {"bar", "donut", "radar"}

LoopWidgets == {"area", "depth"}

SchedWidgets == TickWidgets \cup {"heatmap", "gauge"} \cup LoopWidgets

\* function ease(t, type) of the heatmap, the gauge and the depth chart
ease(t, type) ==
    IF type = "easeOut" THEN Sub(Num(1), Pow3(Sub(Num(1), t)))
    ELSE IF type = "easeInOut"
    THEN IF Lt(t, <<1, 2>>) THEN Mul(Num(4), Pow3(t))
         ELSE Sub(Num(1), Div(Pow3(Add(Mul(Num(-2), t), Num(2))), Num(2)))
    ELSE t

\* Whether the widget animates under the animation option a:
\*   bar, donut, radar, area: resolveAnim(a).enabled
\*   heatmap: cfg && (cfg.style === 'fade' || cfg.style === 'grow')
\*   gauge:   anim && (anim.duration ?? 800) > 0
\*   depth:   !!animCfg
animEnabled(w, a) ==
    CASE w = "heatmap" -> a.given /\ a.style \in {"fade", "grow"}
      [] w = "gauge" -> a.given /\ a.duration > 0
      [] w = "depth" -> a.given
      [] OTHER -> resolveAnim(a).enabled

\* The number of items a draw renders: the bars, the slices of the ring
\* drawn (the rings of stackedData in stacked mode), or the chart as a
\* whole.
drawnItems(s) ==
    CASE s.widget = "bar" -> s.n
      [] s.widget = "donut" -> IF s.stackedN > 0 THEN s.stackedN ELSE s.n
      [] OTHER -> 1

\* draw(elapsed) of the bar, donut and radar charts: every item is rendered
\* at barProgress(i, elapsed), sliceProgress(i, elapsed) or progress(elapsed).
drawElapsed(s, el) ==
    [s EXCEPT !.lastDraw =
        [i \in 1..drawnItems(s) |->
            CASE s.widget = "bar" ->
                     barProgress(resolveAnim(s.animation), i - 1, el)
              [] s.widget = "donut" ->
                     sliceProgress(resolveAnim(s.animation), i - 1, el)
              [] OTHER -> progress(resolveAnim(s.animation), el)]]

\* draw(progress) of the other widgets.
\*   heatmap: isAnimating = animProgress < 1 && cfg && style is fade or grow;
\*            the rectangles are scaled by animProgress only if isAnimating
\*   gauge:   the needle is drawn at needleProgress
\*   area:    animProg = prog === Infinity ? 1 : max(0, min(prog, 1))
\*   depth:   fadeAlpha = growProg = animProg
drawProgress(s, p) ==
    [s EXCEPT !.lastDraw =
        CASE s.widget = "heatmap" ->
                 IF Lt(p, Num(1)) /\ animEnabled("heatmap", s.animation)
                 THEN <<p>> ELSE <<Num(1)>>
          [] s.widget = "area" ->
                 IF p = Infinity THEN <<Num(1)>>
                 ELSE <<MathMax(Num(0), MathMin(p, Num(1)))>>
          [] OTHER -> <<p>>]

\* cancelAnimationFrame(id)
cancelAnimationFrame(s, id) ==
    [s EXCEPT !.requests = {r \in @ : r.id # id},
              !.cancelled = @ \/ (\E r \in s.requests : r.id = id)]

\* if (animFrame) cancelAnimationFrame(animFrame)
cancelPending(s) ==
    IF s.animFrame # 0 THEN cancelAnimationFrame(s, s.animFrame) ELSE s

\* animFrame = requestAnimationFrame(callback); the request remembers the
\* run it belongs to and what the gauge's callback closes over.
requestFrame(s) ==
    [s EXCEPT !.animFrame = s.nextId,
              !.nextId = @ + 1,
              !.requests = @ \cup {[id |-> s.nextId, run |-> s.run,
                                    duration |-> s.animation.duration,
                                    easing |-> s.animation.easing]}]

\* function drawStatic() { animating = false; draw(Infinity); }
drawStatic(s) == drawElapsed([s EXCEPT !.animating = FALSE], Infinity)

\* startAnimation without the cancellation of the pending frame.
startAnimation_NoCancel(s) ==
    IF ~resolveAnim(s.animation).enabled
    THEN drawStatic([s EXCEPT !.animating = FALSE])
    ELSE requestFrame([s EXCEPT !.animStartTime = s.now,
                                !.animating = TRUE,
                                !.run = @ + 1])

\* function startAnimation() of the bar, donut and radar charts:
\*   if (!anim.enabled) { animating = false; drawStatic(); return; }
\*   if (animFrame) cancelAnimationFrame(animFrame);
\*   animStartTime = performance.now(); animating = true; tick();
startAnimation(s) ==
    IF ~resolveAnim(s.animation).enabled
    THEN drawStatic([s EXCEPT !.animating = FALSE])
    ELSE requestFrame([cancelPending(s) EXCEPT !.animStartTime = s.now,
                                               !.animating = TRUE,
                                               !.run = @ + 1])

\* A frame callback that never finds the run complete.
tickCallback_NeverDone(s) ==
    requestFrame(drawElapsed([s EXCEPT !.animFrame = 0,
                                       !.elapsed = s.now - s.animStartTime],
                             Num(s.now - s.animStartTime)))

\* The frame callback of tick() in the bar, donut and radar charts.  The
\* radar chart has no per-item delay: done = elapsed >= anim.duration.
tickCallback(s) ==
    LET anim == resolveAnim(s.animation)
        numBars == s.n
        totalTime ==
            IF s.widget = "radar" THEN anim.duration
            ELSE anim.duration
                     + anim.delay * (IF numBars - 1 > 0 THEN numBars - 1 ELSE 0)
        elapsed == s.now - s.animStartTime
        globalDone == elapsed >= totalTime
        drawn == drawElapsed([s EXCEPT !.animFrame = 0, !.elapsed = elapsed],
                             Num(elapsed))
    IN  IF globalDone
        THEN drawElapsed([drawn EXCEPT !.animating = FALSE,
                                       !.completed = TRUE], Infinity)
        ELSE requestFrame(drawn)

\* function startAnimation() of the heatmap.
heatmapStartAnimation(s) ==
    IF ~animEnabled("heatmap", s.animation)
    THEN drawProgress([s EXCEPT !.animating = FALSE], Infinity)
    ELSE requestFrame([cancelPending(s) EXCEPT !.animStartTime = s.now,
                                               !.animating = TRUE,
                                               !.run = @ + 1])

\* The frame callback of the heatmap's tick().  cfg = opts.animation! is
\* read in the callback; when the option has been removed, cfg.duration
\* throws and the callback ends there.
heatmapTickCallback(s) ==
    LET cfg == s.animation
        elapsed == s.now - s.animStartTime
        raw == MathMin(Num(1), Div(Num(elapsed), Num(cfg.duration)))
        prog == ease(raw, cfg.easing)
        entered == [s EXCEPT !.animFrame = 0, !.elapsed = elapsed]
        drawn == drawProgress(entered,
                              IF Lt(prog, Num(1)) THEN prog ELSE Infinity)
    IN  IF ~cfg.given THEN entered
        ELSE IF Ge(prog, Num(1))
        THEN drawProgress([drawn EXCEPT !.animating = FALSE,
                                        !.completed = TRUE], Infinity)
        ELSE requestFrame(drawn)

\* function runAnimation() of the gauge:
\*   if (!anim || (anim.duration ?? 800) <= 0) { draw(1); return; }
\*   if (animFrame) cancelAnimationFrame(animFrame);
\*   animStartTime = performance.now(); tick();
runAnimation(s) ==
    IF ~animEnabled("gauge", s.animation) THEN drawProgress(s, Num(1))
    ELSE requestFrame([cancelPending(s) EXCEPT !.animStartTime = s.now,
                                               !.run = @ + 1])

\* The frame callback of the gauge's tick(); duration and easingType are
\* those of the run that made the request r.
gaugeTickCallback(s, r) ==
    LET elapsed == s.now - s.animStartTime
        t == MathMin(Num(1), Div(Num(elapsed), Num(r.duration)))
        prog == ease(t, r.easing)
        drawn == drawProgress([s EXCEPT !.animFrame = 0,
                                        !.elapsed = elapsed], prog)
    IN  IF Lt(t, Num(1))
        THEN [requestFrame(drawn) EXCEPT
                 !.requests = {IF q.id = drawn.nextId
                               THEN [q EXCEPT !.duration = r.duration,
                                              !.easing = r.easing]
                               ELSE q : q \in @}]
        ELSE [drawn EXCEPT !.completed = TRUE]

\* function startAnimation() of the area and depth charts:
\*   animating = true; animStart = performance.now();
\*   animId = requestAnimationFrame(loop);
loopStartAnimation(s) ==
    requestFrame([s EXCEPT !.animating = TRUE, !.animStartTime = s.now,
                           !.run = @ + 1])

\* The loop callback of the area chart (easing anim.easing) and of the
\* depth chart (ease(prog, animEasing)).
loopCallback(s) ==
    LET elapsed == s.now - s.animStartTime
        prog == MathMin(Div(Num(elapsed), Num(s.animation.duration)), Num(1))
        easedProg ==
            IF s.widget = "area"
            THEN EASINGS(resolveAnim(s.animation).easing, prog)
            ELSE ease(prog, s.animation.easing)
        drawn == drawProgress([s EXCEPT !.elapsed = elapsed], easedProg)
    IN  IF Lt(prog, Num(1)) THEN requestFrame(drawn)
        ELSE [drawn EXCEPT !.animating = FALSE, !.completed = TRUE]

\* The static draw of the area and depth charts, made only while no run is
\* in progress: if (!animating) drawStatic();
loopStaticDraw(s) ==
    IF s.animating THEN s
    ELSE drawProgress(s, IF s.widget = "area" THEN Infinity ELSE Num(1))

\* The initial draw at the end of the factory function.
initialDraw(s) ==
    CASE s.widget \in TickWidgets -> startAnimation(s)
      [] s.widget = "heatmap" -> heatmapStartAnimation(s)
      [] s.widget = "gauge" -> runAnimation(s)
      [] OTHER -> IF animEnabled(s.widget, s.animation)
                  THEN loopStartAnimation(s) ELSE loopStaticDraw(s)

\* setData(d) (setValue in the gauge, update in the depth chart), after the
\* data has been stored.
afterSetData(s) ==
    CASE s.widget \in TickWidgets ->
             IF resolveAnim(s.animation).enabled THEN startAnimation(s)
             ELSE drawStatic(s)
      [] s.widget = "heatmap" ->
             IF animEnabled("heatmap", s.animation)
             THEN heatmapStartAnimation(s)
             ELSE drawProgress(s, Infinity)
      [] s.widget = "gauge" -> runAnimation(s)
      [] OTHER -> loopStaticDraw(s)

\* setOptions(o), after applyOptions; dataChanged tells whether o carried
\* data.  In the bar, donut and radar charts:
\*   if (dataChanged && anim.enabled) startAnimation(); else drawStatic();
afterSetOptions(s, dataChanged) ==
    CASE s.widget \in TickWidgets ->
             IF dataChanged /\ resolveAnim(s.animation).enabled
             THEN startAnimation(s) ELSE drawStatic(s)
      [] OTHER -> afterSetData(s)

\* redraw() and resize().
redraw(s) ==
    CASE s.widget \in TickWidgets -> drawStatic(s)
      [] s.widget = "heatmap" -> drawProgress(s, Infinity)
      [] s.widget = "gauge" -> runAnimation(s)
      [] OTHER -> loopStaticDraw(s)

\* dispose() without the cancellation.
dispose_NoCancel(s) == [s EXCEPT !.disposed = TRUE]

\* dispose(): if (animFrame) cancelAnimationFrame(animFrame), or
\* cancelAnimationFrame(animId) in the area and depth charts.
dispose(s) ==
    [(IF s.widget \in LoopWidgets
      THEN cancelAnimationFrame(s, s.animFrame)
      ELSE cancelPending(s)) EXCEPT !.disposed = TRUE]

\* The frame callback of the request r.
frameCallback(s, r) ==
    CASE s.widget \in TickWidgets -> tickCallback(s)
      [] s.widget = "heatmap" -> heatmapTickCallback(s)
      [] s.widget = "gauge" -> gaugeTickCallback(s, r)
      [] OTHER -> loopCallback(s)

\* The animation options a chart is created with or set to: none, staggered
\* spring, easeOut, a long easeInOut, style 'none', and a zero duration.
NoAnimation ==
    [given |-> FALSE, style |-> "none", duration |-> 0, easing |-> "linear",
     delay |-> 0]

AnimationOption(st, du, ea, de) ==
    [given |-> TRUE, style |-> st, duration |-> du, easing |-> ea,
     delay |-> de]

SchedAnimations ==
    {NoAnimation,
     AnimationOption("grow", 2, "spring", 1),
     AnimationOption("grow", 2, "easeOut", 0),
     AnimationOption("grow", 4, "easeInOut", 1),
     AnimationOption("none", 2, "linear", 0),
     AnimationOption("grow", 0, "linear", 0)}

\* Sizes of the data sets: one item, or several.
ItemCounts == {1, 3}

\* Sizes of the outer ring of stackedData: none, or three slices.
StackedCounts == {0, 3}

\* The history fields at the start of a step.
step(s, ev) ==
    [s EXCEPT !.event = ev, !.frameRun = 0, !.completed = FALSE,
              !.elapsed = -1, !.cancelled = FALSE]

SchedulerInit ==
    \E w \in SchedWidgets, a \in SchedAnimations, k \in ItemCounts,
       st \in StackedCounts :
        /\ st > 0 => w = "donut"
        /\ sched = initialDraw(
               [widget |-> w, animation |-> a, n |-> k, stackedN |-> st,
                now |-> 0, animStartTime |-> 0, animating |-> FALSE,
                animFrame |-> 0, requests |-> {}, nextId |-> 1, run |-> 0,
                lastDraw |-> <<>>, disposed |-> FALSE, event |-> "create",
                frameRun |-> 0, completed |-> FALSE, elapsed |-> -1,
                cancelled |-> FALSE])

\* The guard common to the API calls: the instance is live, and the frame
\* counter has room for one more request.
Live == ~sched.disposed /\ sched.nextId <= MaxFrames

\* setData(d), setSeriesData(d), setValue(v), update(bids, asks)
SchedSetData ==
    /\ Live
    /\ \E k \in ItemCounts :
           sched' = afterSetData(
               [step(sched, "setData") EXCEPT
                   !.n = IF sched.widget \in Staggered THEN k ELSE @,
                   !.stackedN = 0])
    /\ UNCHANGED otherThanScheduler

\* setStackedData(d) of the donut chart:
\*   stackedData = d; if (anim.enabled) startAnimation(); else drawStatic();
SchedSetStackedData ==
    /\ Live
    /\ sched.widget = "donut"
    /\ \E st \in StackedCounts :
           sched' = afterSetData(
               [step(sched, "setStackedData") EXCEPT !.stackedN = st])
    /\ UNCHANGED otherThanScheduler

\* setOptions(o) with or without an animation option and with or without
\* data.  The depth chart reads the animation option only at creation.
SchedSetOptions ==
    /\ Live
    /\ \E a \in SchedAnimations \cup {sched.animation},
          dataChanged \in BOOLEAN :
           sched' = afterSetOptions(
               [step(sched, "setOptions") EXCEPT
                   !.animation = IF sched.widget = "depth" THEN @ ELSE a],
               dataChanged)
    /\ UNCHANGED otherThanScheduler

\* redraw() and resize()
SchedRedraw ==
    /\ Live
    /\ sched' = redraw(step(sched, "redraw"))
    /\ UNCHANGED otherThanScheduler

\* The browser runs the callback of an outstanding frame request, one or
\* two milliseconds later.
SchedFrame ==
    /\ sched.nextId <= MaxFrames
    /\ \E r \in sched.requests, dt \in 1..2 :
           /\ sched.now + dt <= MaxTime
           /\ sched' = frameCallback(
                  [step(sched, "frame") EXCEPT !.now = @ + dt,
                                                !.frameRun = r.run,
                                                !.requests = @ \ {r}],
                  r)
    /\ UNCHANGED otherThanScheduler

\* dispose()
SchedDispose ==
    /\ ~sched.disposed
    /\ sched' = dispose(step(sched, "dispose"))
    /\ UNCHANGED otherThanScheduler

SchedulerNext ==
    \/ SchedSetData
    \/ SchedSetStackedData
    \/ SchedSetOptions
    \/ SchedRedraw
    \/ SchedFrame
    \/ SchedDispose

InitScheduler ==
    SchedulerInit /\ TreemapIdle /\ ThemeIdle /\ OptionsIdle /\ RectHitIdle
        /\ DonutIdle /\ RadarIdle /\ AreaHitIdle /\ DonutDataIdle
        /\ ProgressIdle
        /\ LateIdle

SpecScheduler == InitScheduler /\ [][SchedulerNext]_vars

-----------------------------------------------------------------------------
(* Claims about the animation scheduler.                                   *)

\* The un-clamped progress argument of item i in the last frame:
\* (elapsed - delayMs * i) / durationMs
UnclampedArgument(i) ==
    Div(Num(sched.elapsed - resolveAnim(sched.animation).delay * i),
        Num(resolveAnim(sched.animation).duration))

\* The last step was a frame callback of a staggered widget that animates
\* and draws at least one item.
StaggeredFrame ==
    /\ sched.event = "frame"
    /\ sched.widget \in Staggered
    /\ resolveAnim(sched.animation).enabled
    /\ resolveAnim(sched.animation).duration > 0
    /\ drawnItems(sched) >= 1

\* C16: a frame callback of the bar or donut chart declares the run complete
\* exactly when the un-clamped progress argument of every item drawn in that
\* frame has reached 1.
C16_GlobalCompletion ==
    StaggeredFrame =>
        (sched.completed <=>
            \A i \in 0..(drawnItems(sched) - 1) :
                Ge(UnclampedArgument(i), Num(1)))

\* C17: the last draw of a run that reaches completion renders every item
\* at progress exactly 1.
C17_FinalDrawPinned ==
    (sched.event = "frame" /\ sched.completed) =>
        \A i \in DOMAIN sched.lastDraw : sched.lastDraw[i] = Num(1)

\* C18: at most one frame request is outstanding, it belongs to the current
\* run, and a frame callback that executes belongs to the current run.
C18_SingleFrameRequest ==
    /\ Cardinality(sched.requests) <= 1
    /\ \A r \in sched.requests : r.run = sched.run
    /\ sched.event = "frame" => sched.frameRun = sched.run

\* A run was started while another had a frame outstanding: the call
\* cancelled that request and left its own.
C18_Witness ==
    /\ sched.event \in {"setData", "setStackedData", "setOptions", "redraw"}
    /\ sched.cancelled
    /\ sched.run >= 2
    /\ Cardinality(sched.requests) = 1

C20_DisabledAnimation ==
    [][~animEnabled(sched'.widget, sched'.animation) =>
           /\ sched'.nextId = sched.nextId
           /\ sched'.event \in {"setData", "setStackedData", "setOptions",
                                "redraw"} =>
                  \A i \in DOMAIN sched'.lastDraw :
                      sched'.lastDraw[i] = Num(1)]_vars

\* C27: in the bar, donut and radar charts, between frame callbacks of a
\* live instance, animating is true exactly when a frame request is
\* outstanding.
C27_FlagAgreesWithRequest ==
    (sched.widget \in TickWidgets /\ ~sched.disposed) =>
        (sched.animating <=> sched.requests # {})

\* C28: every frame callback of the heatmap that executes finds the
\* animation option present.
C28_CallbackFindsConfig ==
    (sched.widget = "heatmap" /\ sched.event = "frame") =>
        sched.animation.given

-----------------------------------------------------------------------------
(* Claims about the rows and the gap of the treemap layout.                *)

\* The squarified layout with every row materialised as worst() measured
\* it: in a wide region a flushed row is a strip of thickness fraction * w
\* whose items share its height h, in a tall region a strip of thickness
\* fraction * h whose items share its width w.
RECURSIVE StripSquarify(_, _, _, _, _, _, _)
StripSquarify(children, row, x, y, w, h, totalArea) ==
    IF Len(children) = 0
    THEN IF Len(row) = 0 THEN <<>>
         ELSE layoutRowLoop(row, sumWeight(row), Ge(w, h), Num(0), x, y, w, h,
                            Num(0))
    ELSE LET area == Mul(w, h)
             newRow == Append(row, children[1])
         IN  IF Len(row) = 0
                \/ Le(worst(newRow, w, h, area, totalArea),
                      worst(row, w, h, area, totalArea))
             THEN StripSquarify(Tail(children), newRow, x, y, w, h, totalArea)
             ELSE LET rowWeight == sumWeight(row)
                      fraction == Div(Num(rowWeight), Num(totalArea))
                      rowW == Mul(fraction, w)
                      rowH == Mul(fraction, h)
                  IN  IF Ge(w, h)
                      THEN layoutRowLoop(row, rowWeight, TRUE, Num(0), x, y,
                                         rowW, h, Num(0))
                           \o StripSquarify(children, <<>>, Add(x, rowW), y,
                                            Sub(w, rowW), h,
                                            totalArea - rowWeight)
                      ELSE layoutRowLoop(row, rowWeight, FALSE, Num(0), x, y,
                                         w, rowH, Num(0))
                           \o StripSquarify(children, <<>>, x, Add(y, rowH),
                                            w, Sub(h, rowH),
                                            totalArea - rowWeight)

\* C24: with gap = 0 and positive weights, every rectangle has the strip
\* thickness as one side and the item's share of the strip's length as the
\* other, so its aspect ratio is the one worst() computed for it.
C24_RowsAsMeasured ==
    (tmPc = "done" /\ Len(items) > 0 /\ AllPositive /\ gap = 0) =>
        rects = StripSquarify(sortByWeight(items), <<>>, Num(region.x),
                              Num(region.y), Num(region.w), Num(region.h),
                              TotalWeight)

\* The cells of the same input laid out without gap.
GapFreeCells ==
    layoutTreemap(items, region.x, region.y, region.w, region.h, 0)

\* A cell moved by gap/2 and reduced by gap, its sides clamped at 0.
Inset(cell) ==
    [x |-> Add(cell.x, Div(Num(gap), Num(2))),
     y |-> Add(cell.y, Div(Num(gap), Num(2))),
     w |-> IF Lt(Sub(cell.w, Num(gap)), Num(0)) THEN Num(0)
           ELSE Sub(cell.w, Num(gap)),
     h |-> IF Lt(Sub(cell.h, Num(gap)), Num(0)) THEN Num(0)
           ELSE Sub(cell.h, Num(gap)),
     item |-> cell.item]

\* C25: every rectangle returned by layoutTreemap is its gap-free cell moved
\* by gap/2 and reduced by gap, with w >= 0 and h >= 0, and a single
\* positive-weight item gets (x + gap/2, y + gap/2, max(0, w - gap),
\* max(0, h - gap)).
C25_GapInset ==
    tmPc = "done" =>
        /\ Len(rects) = Len(GapFreeCells)
        /\ \A k \in 1..Len(rects) :
               /\ rects[k] = Inset(GapFreeCells[k])
               /\ Ge(rects[k].w, Num(0))
               /\ Ge(rects[k].h, Num(0))
        /\ (Len(items) = 1 /\ AllPositive) =>
               rects = <<Inset([x |-> Num(region.x), y |-> Num(region.y),
                                w |-> Num(region.w), h |-> Num(region.h),
                                item |-> items[1]])>>

-----------------------------------------------------------------------------
(* A run left to itself: after creation only frame callbacks happen, each  *)
(* one or two milliseconds after the last, and the browser keeps           *)
(* delivering them (weak fairness) up to a horizon past every run's total  *)
(* duration.                                                               *)

RunFrame ==
    /\ \E r \in sched.requests, dt \in 1..2 :
           /\ sched.now + dt <= RunHorizon
           /\ sched' = frameCallback(
                  [step(sched, "frame") EXCEPT !.now = @ + dt,
                                                !.frameRun = r.run,
                                                !.requests = @ \ {r}],
                  r)
    /\ UNCHANGED otherThanScheduler

SpecRun == InitScheduler /\ [][RunFrame]_vars /\ WF_vars(RunFrame)

\* C26: a run that is left to itself eventually completes: from some point
\* on animating is false and no frame request is outstanding.
C26_RunTerminates == <>[](sched.requests = {} /\ ~sched.animating)

\* A staggered run of three bars has completed in its third frame or later.
C26_Witness ==
    /\ sched.event = "frame"
    /\ sched.completed
    /\ sched.widget = "bar"
    /\ sched.n = 3
    /\ sched.nextId >= 4
    /\ sched.requests = {}
    /\ ~sched.animating

-----------------------------------------------------------------------------
(* Easing resolution: what each widget makes of the easing id of its       *)
(* animation configuration.                                                *)

\* The widgets that look the id up in the EASINGS table, and those that hand
\* it to the ease(t, type) helper.
TableWidgets == {"bar", "donut", "radar", "area"}

HelperWidgets == {"heatmap", "gauge", "sparkline", "depth"}

\* The ids a widget's options type allows.
SupportedIds(w) ==
    IF w \in TableWidgets THEN EasingNames
    ELSE {"linear", "easeOut", "easeInOut"}

\* Ids handed in: the table's four, one that no widget knows, and
\* "undefined" for a configuration without the field.
EasingIds == EasingNames \cup {"bounce", "undefined"}

\* Raw progress at the quarters of [0, 1].
Quarters == {Norm(k, 4) : k \in 0..4}

\* cfg.easing ?? 'easeOut'
easingOrDefault(id) == IF id = "undefined" THEN "easeOut" ELSE id

\* The eased progress a widget draws with, given the id and the raw progress:
\* anim.easing(raw) after resolveAnim, or ease(raw, cfg.easing ?? 'easeOut').
easedProgress(w, id, raw) ==
    IF w \in TableWidgets
    THEN EASINGS(resolveAnim(AnimationOption("grow", 2, id, 0)).easing, raw)
    ELSE ease(raw, easingOrDefault(id))

EasingInit ==
    \E w \in TableWidgets \cup HelperWidgets, id \in EasingIds,
       raw \in Quarters :
        easingCase = [event |-> "configured", widget |-> w, id |-> id,
                      raw |-> raw, prog |-> Num(0)]

\* One frame: the widget eases the raw progress.
EaseFrame ==
    /\ easingCase.event = "configured"
    /\ easingCase' =
           [easingCase EXCEPT
                !.event = "eased",
                !.prog = easedProgress(easingCase.widget, easingCase.id,
                                       easingCase.raw)]
    /\ UNCHANGED otherThanEasing

EasingNext == EaseFrame

InitEasing ==
    EasingInit /\ EarlierIdle /\ DepthIdle /\ ListenersIdle /\ ShorthandIdle
        /\ NeedleIdle

SpecEasing == InitEasing /\ [][EasingNext]_vars

\* C22: in every widget, an easing id that the widget does not support
\* resolves to easeOut: the eased progress is easeOut of the raw progress,
\* and it is a finite number.
C22_UnknownIdIsEaseOut ==
    (/\ easingCase.event = "eased"
     /\ easingCase.id \notin SupportedIds(easingCase.widget)) =>
        /\ IsFinite(easingCase.prog)
        /\ easingCase.prog = EASINGS("easeOut", easingCase.raw)

-----------------------------------------------------------------------------
(* The depth chart: createDepthChart reads the animation option once, its  *)
(* loop draws with what it read, and update/setOptions merge into opts.    *)
(* depthChart is a record: animDuration, animEasing, animEnabled (the      *)
(* constants of the closure), animation (opts.animation), bids (the data,  *)
(* a version number), animating, pending (a frame is requested), start,    *)
(* now, and history of the last step: event, elapsed, drew, drawn (the     *)
(* progress and the data of the last draw).                                *)

\* The animation option of a depth chart: absent, or a configuration that
\* names duration and easing.
DepthConfigs ==
    [given : {TRUE}, duration : Durations,
     easing : {"linear", "easeOut"}]

DepthAnimations ==
    {[given |-> FALSE, duration |-> 0, easing |-> "linear"]}
        \cup DepthConfigs

DepthData == 0..1

\* draw(animProg = 1) of the depth chart: paints opts.bids/opts.asks scaled
\* by animProg.
depthDraw(d, animProg) ==
    [d EXCEPT !.drew = TRUE,
              !.drawn = [prog |-> animProg, bids |-> d.bids]]

\* function startAnimation() of the depth chart
depthStartAnimation(d) ==
    [d EXCEPT !.animating = TRUE, !.start = d.now, !.pending = TRUE]

\* const loop = (now) => { ... } of the depth chart
depthLoop(d) ==
    LET elapsed == d.now - d.start
        prog == MathMin(Div(Num(elapsed), Num(d.animDuration)), Num(1))
        easedProg == ease(prog, d.animEasing)
        painted == depthDraw([d EXCEPT !.elapsed = elapsed], easedProg)
    IN  IF Lt(prog, Num(1)) THEN [painted EXCEPT !.pending = TRUE]
        ELSE [painted EXCEPT !.animating = FALSE, !.pending = FALSE]

depthStep(d, ev) == [d EXCEPT !.event = ev, !.drew = FALSE, !.elapsed = -1]

\* createDepthChart(container, options)
DepthInit ==
    \E a \in DepthAnimations, b \in DepthData :
        LET d == [event |-> "create",
                  animDuration |-> IF a.given THEN a.duration ELSE 600,
                  animEasing |-> IF a.given THEN a.easing ELSE "easeOut",
                  animEnabled |-> a.given,
                  animation |-> a, bids |-> b,
                  animating |-> FALSE, pending |-> FALSE,
                  start |-> 0, now |-> 0, elapsed |-> -1,
                  drew |-> FALSE,
                  drawn |-> [prog |-> Num(0), bids |-> b]]
        IN  depthChart = IF d.animEnabled THEN depthStartAnimation(d)
                         ELSE depthDraw(d, Num(1))

\* update(bids, asks)
DepthUpdate ==
    /\ \E b \in DepthData :
           LET d == [depthStep(depthChart, "update") EXCEPT !.bids = b]
           IN  depthChart' = IF d.animating THEN d ELSE depthDraw(d, Num(1))
    /\ UNCHANGED otherThanDepth

\* setOptions({animation: a})
DepthSetAnimation ==
    /\ \E a \in DepthAnimations :
           LET d == [depthStep(depthChart, "setOptions")
                         EXCEPT !.animation = a]
           IN  depthChart' = IF d.animating THEN d ELSE depthDraw(d, Num(1))
    /\ UNCHANGED otherThanDepth

\* redraw()
DepthRedraw ==
    /\ LET d == depthStep(depthChart, "redraw")
       IN  depthChart' = IF d.animating THEN d ELSE depthDraw(d, Num(1))
    /\ UNCHANGED otherThanDepth

\* The browser runs the requested frame one or two milliseconds on.
DepthFrame ==
    /\ depthChart.pending
    /\ \E dt \in 1..2 :
           /\ depthChart.now + dt <= MaxTime
           /\ depthChart' =
                  depthLoop([depthStep(depthChart, "frame")
                                 EXCEPT !.now = @ + dt, !.pending = FALSE])
    /\ UNCHANGED otherThanDepth

DepthNext == DepthUpdate \/ DepthSetAnimation \/ DepthRedraw \/ DepthFrame

InitDepth ==
    DepthInit /\ EarlierIdle /\ EasingIdle /\ ListenersIdle /\ ShorthandIdle
        /\ NeedleIdle

SpecDepth == InitDepth /\ [][DepthNext]_vars

\* The progress a frame has to draw with when it uses the animation
\* configuration that opts holds.
ProgressByOptions ==
    ease(MathMin(Div(Num(depthChart.elapsed),
                     Num(depthChart.animation.duration)), Num(1)),
         depthChart.animation.easing)

\* C21: every draw uses the data and the options of the last call: an
\* immediate redraw and a frame paint the data that opts holds, and a frame
\* of the depth chart draws with the duration and easing of the animation
\* configuration that opts holds.
C21_NoStaleFrame ==
    /\ depthChart.drew => depthChart.drawn.bids = depthChart.bids
    /\ (depthChart.event = "frame" /\ depthChart.animation.given) =>
           depthChart.drawn.prog = ProgressByOptions

-----------------------------------------------------------------------------
(* The listeners of the donut, radar and area charts.  listeners is a      *)
(* record: widget, registered (the listeners on the canvas, each an event  *)
(* type and the identity of a function object), nextFn (the next function  *)
(* object to be created), attached and tipAttached (canvas and tooltip are *)
(* in the document), hoveredIdx, disposed, and history of the last step:   *)
(* event, handlerRan, calledBack.                                          *)

ListenerWidgets == {"donut", "radar", "area"}

EventTypes == {"mousemove", "mouseleave", "click"}

\* Function objects are numbered in the order of their creation: the three
\* handlers at creation are 1, 2 and 3.
HandlerOf(type) ==
    CASE type = "mousemove" -> 1
      [] type = "mouseleave" -> 2
      [] OTHER -> 3

\* canvas.addEventListener(type, fn)
addEventListener(l, type, fn) ==
    [l EXCEPT !.registered = @ \cup {[type |-> type, fn |-> fn]}]

\* canvas.removeEventListener(type, fn): removes the listener with this
\* type and this function object, if there is one.
removeEventListener(l, type, fn) ==
    [l EXCEPT !.registered = @ \ {[type |-> type, fn |-> fn]}]

\* What the dispose() of a chart passes to removeEventListener for a type:
\* the area chart passes the named handler it registered, the donut chart a
\* new arrow function, the radar chart removes no listener.
disposeListener(l, type) ==
    CASE l.widget = "area" -> removeEventListener(l, type, HandlerOf(type))
      [] l.widget = "donut" ->
             [removeEventListener(l, type, l.nextFn) EXCEPT !.nextFn = @ + 1]
      [] OTHER -> l

\* dispose(): the listeners, then canvas.remove(); tip.remove()
disposeCanvas(l) ==
    [disposeListener(disposeListener(disposeListener(l, "mousemove"),
                                     "mouseleave"), "click")
        EXCEPT !.attached = FALSE, !.tipAttached = FALSE, !.disposed = TRUE]

\* The handlers: mousemove and mouseleave report a change of the hovered
\* item to onHover, click reports a hit to onClick.
runHandler(l, type, idx) ==
    CASE type = "mousemove" ->
             IF idx # l.hoveredIdx
             THEN [l EXCEPT !.handlerRan = TRUE, !.hoveredIdx = idx,
                            !.calledBack = "onHover"]
             ELSE [l EXCEPT !.handlerRan = TRUE]
      [] type = "mouseleave" ->
             IF l.hoveredIdx # -1
             THEN [l EXCEPT !.handlerRan = TRUE, !.hoveredIdx = -1,
                            !.calledBack = "onHover"]
             ELSE [l EXCEPT !.handlerRan = TRUE]
      [] OTHER ->
             IF idx >= 0
             THEN [l EXCEPT !.handlerRan = TRUE, !.calledBack = "onClick"]
             ELSE [l EXCEPT !.handlerRan = TRUE]

\* canvas.dispatchEvent: the handlers registered for the type run.
dispatchEvent(l, type, idx) ==
    IF \E r \in l.registered : r.type = type
    THEN runHandler(l, type, idx)
    ELSE l

listenerStep(l, ev) ==
    [l EXCEPT !.event = ev, !.handlerRan = FALSE, !.calledBack = "none"]

\* Creation: the three listeners are registered.
ListenersInit ==
    \E w \in ListenerWidgets :
        listeners =
            addEventListener(
                addEventListener(
                    addEventListener(
                        [event |-> "create", widget |-> w, registered |-> {},
                         nextFn |-> 4, attached |-> TRUE,
                         tipAttached |-> TRUE, hoveredIdx |-> -1,
                         disposed |-> FALSE, handlerRan |-> FALSE,
                         calledBack |-> "none"],
                        "mousemove", HandlerOf("mousemove")),
                    "mouseleave", HandlerOf("mouseleave")),
                "click", HandlerOf("click"))

\* A pointer event is delivered to the canvas, over item idx or over none.
ListenersDeliver ==
    /\ \E type \in EventTypes, idx \in -1..(MaxSlices - 1) :
           listeners' = dispatchEvent(listenerStep(listeners, type), type, idx)
    /\ UNCHANGED otherThanListeners

ListenersDispose ==
    /\ ~listeners.disposed
    /\ listeners' = disposeCanvas(listenerStep(listeners, "dispose"))
    /\ UNCHANGED otherThanListeners

ListenersNext == ListenersDeliver \/ ListenersDispose

InitListeners ==
    ListenersInit /\ EarlierIdle /\ DepthIdle /\ EasingIdle /\ ShorthandIdle
        /\ NeedleIdle

SpecListeners == InitListeners /\ [][ListenersNext]_vars

\* C23: after dispose() the canvas and the tooltip are out of the document
\* and no listener is registered on the canvas, so an event delivered to it
\* runs no handler and calls neither onHover nor onClick.
C23_DisposeRemovesListeners ==
    listeners.disposed =>
        /\ ~listeners.attached
        /\ ~listeners.tipAttached
        /\ listeners.registered = {}
        /\ listeners.event \in EventTypes =>
               (~listeners.handlerRan /\ listeners.calledBack = "none")

-----------------------------------------------------------------------------
(* The gauge's value.  needle is a record: value (opts.value), animation   *)
(* (opts.animation), animFromValue, animTargetValue, pending (a frame is   *)
(* requested), animStartTime, now, display (displayValue of the last       *)
(* draw), and history of the last step: event, previous (opts.value before *)
(* the call) and argument (the value the call was given).                  *)

GaugeValues == 0..MaxValue

GaugeAnimations ==
    {[given |-> FALSE, duration |-> 0, easing |-> "linear"],
     [given |-> TRUE, duration |-> 2, easing |-> "easeOut"],
     [given |-> TRUE, duration |-> 4, easing |-> "linear"]}

\* draw(needleProgress): displayValue =
\*   animFromValue + (animTargetValue - animFromValue) * needleProgress
gaugeDraw(g, needleProgress) ==
    [g EXCEPT !.display =
        Add(Num(g.animFromValue),
            Mul(Num(g.animTargetValue - g.animFromValue), needleProgress))]

\* function runAnimation() of the gauge, up to the first request
gaugeRunAnimation(g) ==
    IF ~g.animation.given \/ g.animation.duration <= 0
    THEN gaugeDraw([g EXCEPT !.animFromValue = g.animTargetValue], Num(1))
    ELSE [g EXCEPT !.animStartTime = g.now, !.pending = TRUE]

\* The frame callback of the gauge's tick()
gaugeFrame(g) ==
    LET elapsed == g.now - g.animStartTime
        t == MathMin(Num(1), Div(Num(elapsed), Num(g.animation.duration)))
        drawn == gaugeDraw(g, ease(t, g.animation.easing))
    IN  IF Ge(t, Num(1))
        THEN [drawn EXCEPT !.animFromValue = g.animTargetValue,
                           !.pending = FALSE]
        ELSE [drawn EXCEPT !.pending = TRUE]

\* setValue(value)
gaugeSetValue(g, value) ==
    gaugeRunAnimation([g EXCEPT !.animFromValue = g.value,
                                !.animTargetValue = value,
                                !.value = value])

\* setOptions({value}): opts = {...opts, ...newOpts} comes first, and
\* animFromValue = opts.value reads the merged options.
gaugeSetOptions(g, value) ==
    LET merged == [g EXCEPT !.value = value]
    IN  gaugeRunAnimation([merged EXCEPT !.animFromValue = merged.value,
                                         !.animTargetValue = value])

needleStep(g, ev, v) ==
    [g EXCEPT !.event = ev, !.previous = g.value, !.argument = v]

\* createGauge: animFromValue = opts.min (0), animTargetValue = opts.value,
\* then runAnimation()
NeedleInit ==
    \E v \in GaugeValues, a \in GaugeAnimations :
        needle = gaugeRunAnimation(
                     [event |-> "create", value |-> v, animation |-> a,
                      animFromValue |-> 0, animTargetValue |-> v,
                      pending |-> FALSE, animStartTime |-> 0, now |-> 0,
                      display |-> Num(0), previous |-> 0, argument |-> v])

NeedleSetValue ==
    /\ \E v \in GaugeValues :
           needle' = gaugeSetValue(needleStep(needle, "setValue", v), v)
    /\ UNCHANGED otherThanNeedle

NeedleSetOptions ==
    /\ \E v \in GaugeValues :
           needle' = gaugeSetOptions(needleStep(needle, "setOptions", v), v)
    /\ UNCHANGED otherThanNeedle

\* The browser runs the requested frame one or two milliseconds on.
NeedleFrame ==
    /\ needle.pending
    /\ \E dt \in 1..2 :
           /\ needle.now + dt <= MaxTime
           /\ needle' =
                  gaugeFrame([needleStep(needle, "frame", needle.value)
                                  EXCEPT !.now = @ + dt, !.pending = FALSE])
    /\ UNCHANGED otherThanNeedle

NeedleNext == NeedleSetValue \/ NeedleSetOptions \/ NeedleFrame

InitNeedle ==
    NeedleInit /\ EarlierIdle /\ DepthIdle /\ EasingIdle /\ ListenersIdle
        /\ ShorthandIdle

SpecNeedle == InitNeedle /\ [][NeedleNext]_vars

\* C30: with animation enabled, setOptions({value: v}) and setValue(v) start
\* the same needle run: it begins at the value opts held before the call
\* and ends at v.
C30_SameNeedleRun ==
    (/\ needle.event \in {"setValue", "setOptions"}
     /\ needle.animation.given) =>
        /\ needle.animFromValue = needle.previous
        /\ needle.animTargetValue = needle.argument
        /\ needle.pending

-----------------------------------------------------------------------------
(* Shorthand hex backgrounds.  shorthand is a record: digits (the three    *)
(* hex digits of "#abc"), and after the classification short and long, the *)
(* themes of "#abc" and of "#aabbcc".                                      *)

\* Hex digits tried: 0, 8, 9, a and f.
ShortDigits == {0, 8, 9, 10, 15}

\* "#abc" and its expansion "#aabbcc"
Hex3(ds) == HexColour(ds)

Expanded(ds) == HexColour(<<ds[1], ds[1], ds[2], ds[2], ds[3], ds[3]>>)

ShorthandInit ==
    \E a \in ShortDigits, b \in ShortDigits, c \in ShortDigits :
        shorthand = [event |-> "given", digits |-> <<a, b, c>>,
                     short |-> "none", long |-> "none"]

\* A widget is created with background "#abc", another with "#aabbcc".
Classify ==
    /\ shorthand.event = "given"
    /\ shorthand' =
           [shorthand EXCEPT
                !.event = "classified",
                !.short = Theme(isLightBg(Hex3(shorthand.digits), <<>>)),
                !.long = Theme(isLightBg(Expanded(shorthand.digits), <<>>))]
    /\ UNCHANGED otherThanShorthand

ShorthandNext == Classify

InitShorthand ==
    ShorthandInit /\ EarlierIdle /\ DepthIdle /\ EasingIdle /\ ListenersIdle
        /\ NeedleIdle

SpecShorthand == InitShorthand /\ [][ShorthandNext]_vars

\* C29: a 3-digit hex background is classified as its 6-digit expansion is.
C29_ShorthandAsExpanded ==
    shorthand.event = "classified" => shorthand.short = shorthand.long

=============================================================================
